---- MODULE Spec2Model ----
(***************************************************************************)
(* SmartSwing golf-swing analysis: the motion-energy estimator, the swing  *)
(* segmenter, the key-position identifier, the analysis pipeline and the   *)
(* session store, modelled from the Python sources.                        *)
(*                                                                         *)
(* Conventions.  Frame indices are Python's (0-based); a TLA+ sequence     *)
(* holds frame k at position k+1.  A landmark frame is None or carries the *)
(* common image-space y coordinate (hundredths of the image height) of the *)
(* rigidly moving key joints, the right wrist (joint 16) among them, so    *)
(* that mean(displacement[key_joints]) * 100 is |y_i - y_(i-1)|.  Motion   *)
(* energies and the motion threshold are exact rationals held as integer   *)
(* numerators over EnergyDenom, the denominator of the smoothing filter.   *)
(***************************************************************************)
EXTENDS Integers, Sequences, FiniteSets, TLC

VARIABLES
    landmarks_sequence,   \* input of calculate_motion_energy / identify_swing_positions
    motion_energy,        \* the energy sequence scanned by detect_swing_phases
    motion_threshold,     \* SwingDetector.motion_threshold
    stillness_frames,     \* SwingDetector.stillness_frames
    min_swing_duration,   \* SwingDetector.min_swing_duration
    max_swing_duration,   \* SwingDetector.max_swing_duration
    i,                    \* detect_swing_phases: index of the next frame to scan
    in_swing,             \* detect_swing_phases: local in_swing
    swing_start,          \* detect_swing_phases: local swing_start
    stillness_counter,    \* detect_swing_phases: local stillness_counter
    swings,               \* detect_swing_phases: local swings
    returned,             \* the list detect_swing_phases returned
    phase,                \* which SwingDetector method runs next
    swing_range,          \* identify_swing_positions: argument (start, end)
    key_positions,        \* identify_swing_positions: the mapping returned
    pipelines,            \* the SmartSwingPipeline instances the caller runs
    pc,                   \* per pipeline: where its constructor / analyze_video stands
    call,                 \* per pipeline: arguments and locals of analyze_video
    result,               \* per pipeline: what analyze_video returned
    tracker,              \* per pipeline: ProgressTracker.sessions
    budget,               \* per pipeline: analyze_video calls the caller still makes
    sessions_file,        \* the sessions.json file shared by all trackers
    clock,                \* datetime.now()
    component_scores,     \* calculate_swing_score: the six component scores
    swing_score,          \* calculate_swing_score: the dictionary returned
    tempo,                \* analyze_tempo: the dictionary returned
    ref_vector,           \* _calculate_rotation_angle: argument
    current_vector,       \* _calculate_rotation_angle: argument
    angle,                \* _calculate_rotation_angle: the angle returned, in degrees
    rotation_metrics,     \* what calculate_rotation_metrics returned
    weight_metrics,       \* what calculate_weight_transfer returned
    errors,               \* what detect_common_errors returned
    session_ids,          \* the ids add_session returned, in call order
    lookup                \* the last get_session call: which id, and what it returned

detVars == <<landmarks_sequence, motion_energy, motion_threshold, stillness_frames,
             min_swing_duration, max_swing_duration, i, in_swing, swing_start,
             stillness_counter, swings, returned, phase>>

posVars == <<swing_range, key_positions>>

pipeVars == <<pipelines, pc, call, result, tracker, budget, sessions_file, clock>>

scoreVars == <<component_scores, swing_score, tempo>>

angleVars == <<ref_vector, current_vector, angle>>

errVars == <<rotation_metrics, weight_metrics, errors>>

trackVars == <<session_ids, lookup>>

unitVars == <<scoreVars, angleVars, errVars, trackVars>>

vars == <<detVars, posVars, pipeVars, unitVars>>

\* a frame on which pose detection failed, and a detected frame with wrist y
None == <<>>
Frame(y) == <<y>>
Y(lm) == lm[1]

(***************************************************************************)
(* Bounds of the explored inputs.                                          *)
(***************************************************************************)
MaxLen == 6        \* longest energy sequence fed to detect_swing_phases
MaxFrames == 6     \* longest landmark sequence fed to calculate_motion_energy

EnergyValues == {0, 1, 2}          \* below, equal to and above the threshold 1
ThresholdValues == {1}
StillnessValues == {0, 1, 2}
MinDurationValues == {0, 2}
MaxDurationValues == {1, 3}
YValues == {0, 1, 2}
FrameValues == {None} \cup {Frame(y) : y \in YValues}

(***************************************************************************)
(* config.py: SWING_DETECTION                                              *)
(***************************************************************************)
ConfigMotionThreshold == 5
ConfigStillnessFrames == 15
ConfigMinSwingDuration == 30
ConfigMaxSwingDuration == 120
velocity_smoothing_window == 5

\* savgol_filter(x, 5, 2): every coefficient is an integer over 35
EnergyDenom == 35

Abs(x) == IF x < 0 THEN -x ELSE x

SeqsUpTo(n, S) == UNION {[1..k -> S] : k \in 0..n}

(***************************************************************************)
(* SwingDetector.calculate_motion_energy                                   *)
(***************************************************************************)
\* lines 51-60: energy of frame k (0-based), before smoothing
RawEnergy(lms, k) ==
    IF k >= 1 /\ lms[k + 1] # None /\ lms[k] # None
    THEN Abs(Y(lms[k + 1]) - Y(lms[k]))
    ELSE 0

\* scipy.signal.savgol_filter(x, 5, 2), mode 'interp': the least-squares
\* parabola through each window of five, evaluated at the window's centre;
\* the first and last two values come from the parabola through the first
\* and last five samples.  Row r of the table is the coefficient vector
\* (times 35) for evaluating at offset r - 3 from the centre.
SavgolCoeffs ==
    << <<31, 9, -3, -5, 3>>,
       <<9, 13, 12, 6, -5>>,
       <<-3, 12, 17, 12, -3>>,
       <<-5, 6, 12, 13, 9>>,
       <<3, -5, -3, 9, 31>> >>

Dot5(c, x, first) ==
    c[1] * x[first] + c[2] * x[first + 1] + c[3] * x[first + 2]
        + c[4] * x[first + 3] + c[5] * x[first + 4]

\* x: the raw energies (1-based), n = Len(x) > 5; value at position p (1-based),
\* as a numerator over EnergyDenom
SavgolAt(x, p) ==
    LET n == Len(x)
        half == velocity_smoothing_window \div 2
    IN  IF p <= half THEN Dot5(SavgolCoeffs[p], x, 1)
        ELSE IF p > n - half
             THEN Dot5(SavgolCoeffs[velocity_smoothing_window - (n - p)], x,
                       n - velocity_smoothing_window + 1)
             ELSE Dot5(SavgolCoeffs[half + 1], x, p - half)

SmoothingAppliesAtWindow(n) == n >= velocity_smoothing_window

\* lines 62-68: smoothing applies only to sequences longer than the window
SmoothingApplies(n) == n > velocity_smoothing_window

\* lines 46-70
CalcMotionEnergy(lms) ==
    LET n == Len(lms)
        raw == [k \in 1..n |-> RawEnergy(lms, k - 1)]
    IN  IF n < 2 THEN [k \in 1..n |-> 0]
        ELSE IF SmoothingApplies(n)
             THEN [k \in 1..n |-> SavgolAt(raw, k)]
             ELSE [k \in 1..n |-> EnergyDenom * raw[k]]

(***************************************************************************)
(* SwingDetector.detect_swing_phases                                       *)
(***************************************************************************)
ExceedsThresholdOrEqual(energy, thr) == energy >= thr

ExceedsThreshold(energy, thr) == energy > thr            \* line 90

BelowThreshold(energy, thr) == energy < thr              \* line 96

StillnessReachedLate(counter, sf) == counter > sf

StillnessReached(counter, sf) == counter >= sf           \* line 98

SwingEndPastClose(idx, sf) == idx + 1

SwingEndNoBackOut(idx, sf) == idx

SwingEnd(idx, sf) == idx - sf                            \* line 99

ValidDurationNoMax(d, mn, mx) == mn <= d

ValidDuration(d, mn, mx) == mn <= d /\ d <= mx           \* lines 103-104

\* the loop body without the reset of lines 107-108 when the duration is
\* refused: the swing stays open and goes on counting
ScanStepRejectKeepsOpen(st, e, idx, thr, sf, mn, mx) ==
    IF ~st.in_swing
    THEN IF ExceedsThreshold(e, thr)
         THEN [st EXCEPT !.in_swing = TRUE, !.swing_start = idx,
                         !.stillness_counter = 0]
         ELSE st
    ELSE IF BelowThreshold(e, thr)
         THEN LET c == st.stillness_counter + 1
              IN  IF /\ StillnessReached(c, sf)
                     /\ ValidDuration(SwingEnd(idx, sf) - st.swing_start, mn, mx)
                  THEN [st EXCEPT
                          !.swings = Append(@, <<st.swing_start,
                                                 SwingEnd(idx, sf),
                                                 "full_swing">>),
                          !.in_swing = FALSE,
                          !.stillness_counter = 0]
                  ELSE [st EXCEPT !.stillness_counter = c]
         ELSE [st EXCEPT !.stillness_counter = 0]

\* One iteration of the loop of lines 87-110 on frame idx with energy e.
\* st = [in_swing, swing_start, stillness_counter, swings]
ScanStep(st, e, idx, thr, sf, mn, mx) ==
    IF ~st.in_swing
    THEN IF ExceedsThreshold(e, thr)
         THEN [st EXCEPT !.in_swing = TRUE, !.swing_start = idx,
                         !.stillness_counter = 0]
         ELSE st
    ELSE IF BelowThreshold(e, thr)
         THEN LET c == st.stillness_counter + 1
              IN  IF StillnessReached(c, sf)
                  THEN LET swing_end == SwingEnd(idx, sf)
                           swing_duration == swing_end - st.swing_start
                       IN  [st EXCEPT
                              !.swings =
                                 IF ValidDuration(swing_duration, mn, mx)
                                 THEN Append(@, <<st.swing_start, swing_end,
                                                  "full_swing">>)
                                 ELSE @,
                              !.in_swing = FALSE,
                              !.stillness_counter = 0]
                  ELSE [st EXCEPT !.stillness_counter = c]
         ELSE [st EXCEPT !.stillness_counter = 0]

\* lines 82-85
ScanInit == [in_swing |-> FALSE, swing_start |-> 0, stillness_counter |-> 0,
             swings |-> <<>>]

EndOfScanFlush(sw, open, start, n) ==
    IF open THEN Append(sw, <<start, n - 1, "full_swing">>) ELSE sw

\* line 112: the loop has ended; whatever swing is still open is dropped
EndOfScan(sw, open, start, n) == sw

\* the loop of lines 87-110 over frames lo .. hi-1, halved, and the left
\* half evaluated before the right half is entered, so that the evaluation
\* stays shallow on long sequences
RECURSIVE ScanFrom(_, _, _, _, _, _, _, _)
ScanFrom(st, energy, lo, hi, thr, sf, mn, mx) ==
    IF hi <= lo THEN st
    ELSE IF hi = lo + 1
         THEN ScanStep(st, energy[lo + 1], lo, thr, sf, mn, mx)
         ELSE LET mid == (lo + hi) \div 2
                  left == ScanFrom(st, energy, lo, mid, thr, sf, mn, mx)
              IN  IF left.stillness_counter >= 0
                  THEN ScanFrom(left, energy, mid, hi, thr, sf, mn, mx)
                  ELSE left

\* the whole of detect_swing_phases, as the pipeline calls it
DetectSwingPhases(energy, thr, sf, mn, mx) ==
    LET st == ScanFrom(ScanInit, energy, 0, Len(energy), thr, sf, mn, mx)
    IN  EndOfScan(st.swings, st.in_swing, st.swing_start, Len(energy))

(***************************************************************************)
(* SwingDetector.identify_swing_positions                                  *)
(***************************************************************************)
Min(a, b) == IF a <= b THEN a ELSE b

\* line 127: landmarks_sequence[start:end+1], for start, end >= 0
Slice(lms, start, end) == SubSeq(lms, start + 1, Min(end + 1, Len(lms)))

NoLandmarksAllMissing(swing_landmarks) ==
    \A k \in 1..Len(swing_landmarks) : swing_landmarks[k] = None

\* line 129
NoLandmarks(swing_landmarks) == Len(swing_landmarks) = 0

WristHeightMissingHigh(lm) == IF lm # None THEN Y(lm) ELSE 1

\* lines 135-138 (a detected frame always has the 33 landmarks)
WristHeight(lm) == IF lm # None THEN Y(lm) ELSE 0

\* np.argmin over the first n heights: the first index of the minimum
ArgMin(heights, n) ==
    CHOOSE k \in 0..(n - 1) :
        /\ \A j \in 0..(n - 1) : heights[k + 1] <= heights[j + 1]
        /\ \A j \in 0..(k - 1) : heights[j + 1] > heights[k + 1]

TopIdxWholeSwing(wrist_heights) == ArgMin(wrist_heights, Len(wrist_heights))

\* lines 146-147
TopIdx(wrist_heights) ==
    LET backswing_end == Len(wrist_heights) \div 2
    IN  IF backswing_end > 0 THEN ArgMin(wrist_heights, backswing_end) ELSE 0

ImpactIdxEarly(n) == (n * 6) \div 10

\* line 150: int(len(wrist_heights) * 0.8)
ImpactIdx(n) == (n * 8) \div 10

\* line 153
FinishIdx(n) == n - 1

PositionNames == {"address", "top", "impact", "finish"}

\* the empty dict
EmptyMapping == <<>>

\* lines 126-160
IdentifySwingPositions(lms, range) ==
    LET start == range[1]
        end == range[2]
        swing_landmarks == Slice(lms, start, end)
        wrist_heights == [k \in 1..Len(swing_landmarks) |->
                             WristHeight(swing_landmarks[k])]
    IN  IF NoLandmarks(swing_landmarks) THEN EmptyMapping
        ELSE [address |-> start + 0,
              top |-> start + TopIdx(wrist_heights),
              impact |-> start + ImpactIdx(Len(wrist_heights)),
              finish |-> start + FinishIdx(Len(wrist_heights))]

(***************************************************************************)
(* Values of the variables a specification does not use                    *)
(***************************************************************************)
Pipelines == {1, 2}

ScanIdle ==
    /\ motion_energy = <<>>
    /\ motion_threshold = 0
    /\ stillness_frames = 0
    /\ min_swing_duration = 0
    /\ max_swing_duration = 0
    /\ i = 0
    /\ in_swing = FALSE
    /\ swing_start = 0
    /\ stillness_counter = 0
    /\ swings = <<>>
    /\ returned = <<>>

PosIdle ==
    /\ swing_range = <<0, 0>>
    /\ key_positions = EmptyMapping

PipeIdle ==
    /\ pipelines = {}
    /\ pc = <<>>
    /\ call = <<>>
    /\ result = <<>>
    /\ tracker = <<>>
    /\ budget = <<>>
    /\ sessions_file = <<>>
    /\ clock = 0

ScoreIdle ==
    /\ component_scores = <<>>
    /\ swing_score = <<>>
    /\ tempo = <<>>

AngleIdle ==
    /\ ref_vector = <<0, 0>>
    /\ current_vector = <<0, 0>>
    /\ angle = 0

ErrIdle ==
    /\ rotation_metrics = <<>>
    /\ weight_metrics = <<>>
    /\ errors = <<>>

TrackIdle ==
    /\ session_ids = <<>>
    /\ lookup = <<>>

UnitIdle ==
    /\ ScoreIdle
    /\ AngleIdle
    /\ ErrIdle
    /\ TrackIdle

(***************************************************************************)
(* Actions of the detector                                                 *)
(***************************************************************************)
CalculateMotionEnergy ==
    /\ phase = "energy"
    /\ motion_energy' = CalcMotionEnergy(landmarks_sequence)
    /\ phase' = "scan"
    /\ UNCHANGED <<landmarks_sequence, motion_threshold, stillness_frames,
                   min_swing_duration, max_swing_duration, i, in_swing,
                   swing_start, stillness_counter, swings, returned>>
    /\ UNCHANGED <<posVars, pipeVars, unitVars>>

ScanFrame ==
    /\ phase = "scan"
    /\ i < Len(motion_energy)
    /\ LET st == ScanStep([in_swing |-> in_swing, swing_start |-> swing_start,
                           stillness_counter |-> stillness_counter,
                           swings |-> swings],
                          motion_energy[i + 1], i, motion_threshold,
                          stillness_frames, min_swing_duration,
                          max_swing_duration)
       IN  /\ in_swing' = st.in_swing
           /\ swing_start' = st.swing_start
           /\ stillness_counter' = st.stillness_counter
           /\ swings' = st.swings
    /\ i' = i + 1
    /\ UNCHANGED <<landmarks_sequence, motion_energy, motion_threshold,
                   stillness_frames, min_swing_duration, max_swing_duration,
                   returned, phase>>
    /\ UNCHANGED <<posVars, pipeVars, unitVars>>

ReturnSwings ==
    /\ phase = "scan"
    /\ i = Len(motion_energy)
    /\ returned' = EndOfScan(swings, in_swing, swing_start, Len(motion_energy))
    /\ phase' = "done"
    /\ UNCHANGED <<landmarks_sequence, motion_energy, motion_threshold,
                   stillness_frames, min_swing_duration, max_swing_duration,
                   i, in_swing, swing_start, stillness_counter, swings>>
    /\ UNCHANGED <<posVars, pipeVars, unitVars>>

ScanLocalsInit ==
    /\ i = 0
    /\ in_swing = FALSE
    /\ swing_start = 0
    /\ stillness_counter = 0
    /\ swings = <<>>
    /\ returned = <<>>

\* detect_swing_phases on every energy sequence and threshold setting
InitDetect ==
    /\ landmarks_sequence = <<>>
    /\ motion_energy \in SeqsUpTo(MaxLen, EnergyValues)
    /\ motion_threshold \in ThresholdValues
    /\ stillness_frames \in StillnessValues
    /\ min_swing_duration \in MinDurationValues
    /\ max_swing_duration \in MaxDurationValues
    /\ ScanLocalsInit
    /\ phase = "scan"
    /\ PosIdle
    /\ PipeIdle
    /\ UnitIdle

NextDetect == ScanFrame \/ ReturnSwings

SpecDetect == InitDetect /\ [][NextDetect]_vars

\* 90 frames; the key joints move by 8 per frame on frames 20..70 and rest
\* on every other frame
ScenarioLandmarks ==
    [k \in 1..90 |->
        LET f == k - 1
        IN  IF f < 20 THEN Frame(0)
            ELSE IF f <= 70 THEN (IF (f - 20) % 2 = 0 THEN Frame(8) ELSE Frame(0))
            ELSE Frame(8)]

\* calculate_motion_energy followed by detect_swing_phases, on a detector
\* built with the configured defaults (SwingDetector())
InitEnergy ==
    /\ landmarks_sequence \in SeqsUpTo(MaxFrames, FrameValues) \cup {ScenarioLandmarks}
    /\ motion_energy = <<>>
    /\ motion_threshold = ConfigMotionThreshold * EnergyDenom
    /\ stillness_frames = ConfigStillnessFrames
    /\ min_swing_duration = ConfigMinSwingDuration
    /\ max_swing_duration = ConfigMaxSwingDuration
    /\ ScanLocalsInit
    /\ phase = "energy"
    /\ PosIdle
    /\ PipeIdle
    /\ UnitIdle

NextEnergy == CalculateMotionEnergy \/ ScanFrame \/ ReturnSwings

SpecEnergy == InitEnergy /\ [][NextEnergy]_vars

(***************************************************************************)
(* identify_swing_positions on every landmark sequence and range           *)
(***************************************************************************)
MaxSegFrames == 5  \* longest landmark sequence fed to identify_swing_positions

IdentifyPositions ==
    /\ phase = "positions"
    /\ key_positions' = IdentifySwingPositions(landmarks_sequence, swing_range)
    /\ phase' = "positioned"
    /\ UNCHANGED <<landmarks_sequence, motion_energy, motion_threshold,
                   stillness_frames, min_swing_duration, max_swing_duration,
                   i, in_swing, swing_start, stillness_counter, swings,
                   returned, swing_range>>
    /\ UNCHANGED <<pipeVars, unitVars>>

\* lengths of the shortest and the longest segment the default detector
\* emits (durations 30 and 120), and two lengths between
LongLengths == {10, ConfigMinSwingDuration + 1, 46, ConfigMaxSwingDuration + 1}

\* a long sequence: every frame missing, or every frame detected with one
\* frame m holding the lowest y
LongLandmarks ==
    {[k \in 1..n |-> None] : n \in LongLengths}
        \cup UNION {{[k \in 1..n |-> IF k = m THEN Frame(0) ELSE Frame(1)] :
                       m \in {1, n \div 2, n \div 2 + 1, n}} : n \in LongLengths}

InitPositions ==
    /\ \/ /\ landmarks_sequence \in SeqsUpTo(MaxSegFrames, FrameValues)
          /\ swing_range \in (0..MaxSegFrames) \X (0..MaxSegFrames)
       \/ /\ landmarks_sequence \in LongLandmarks
          /\ swing_range \in {<<0, Len(landmarks_sequence) - 1>>,
                               <<1, Len(landmarks_sequence) - 2>>}
    /\ key_positions = EmptyMapping
    /\ ScanIdle
    /\ phase = "positions"
    /\ PipeIdle
    /\ UnitIdle

NextPositions == IdentifyPositions

SpecPositions == InitPositions /\ [][NextPositions]_vars


(***************************************************************************)
(* The videos the pipeline is run on.  A video is a list of runs           *)
(* <<kind, frames>>: "still" frames repeat the pose, "move" frames move    *)
(* the key joints by 8 per frame, "lost" frames have no pose detected.     *)
(***************************************************************************)
StillVideo == << <<"still", 50>> >>
OneSwingVideo == << <<"still", 20>>, <<"move", 51>>, <<"still", 19>> >>
TwoSwingsVideo ==
    << <<"still", 5>>, <<"move", 40>>, <<"still", 20>>, <<"move", 45>>,
       <<"still", 20>> >>
ShortThenValidVideo ==
    << <<"still", 5>>, <<"move", 10>>, <<"still", 20>>, <<"move", 40>>,
       <<"still", 20>> >>
OpenSwingVideo == << <<"still", 5>>, <<"move", 40>>, <<"still", 5>> >>
LostVideo == << <<"lost", 20>> >>
GapSwingVideo ==
    << <<"still", 5>>, <<"move", 20>>, <<"lost", 3>>, <<"move", 20>>,
       <<"still", 20>> >>

Videos == {StillVideo, OneSwingVideo, TwoSwingsVideo, ShortThenValidVideo,
           OpenSwingVideo, LostVideo, GapSwingVideo}

RECURSIVE TotalFrames(_)
TotalFrames(runs) ==
    IF runs = <<>> THEN 0 ELSE Head(runs)[2] + TotalFrames(Tail(runs))

\* frame f of the runs, of which `moved` frames moved before the first run
RECURSIVE FrameAt(_, _, _)
FrameAt(runs, f, moved) ==
    LET kind == Head(runs)[1]
        n == Head(runs)[2]
    IN  IF f >= n
        THEN FrameAt(Tail(runs), f - n, IF kind = "move" THEN moved + n ELSE moved)
        ELSE IF kind = "lost" THEN None
             ELSE IF kind = "move"
                  THEN Frame(IF (moved + f + 1) % 2 = 1 THEN 8 ELSE 0)
                  ELSE Frame(IF moved % 2 = 1 THEN 8 ELSE 0)

\* PoseEstimator.process_video: the landmark sequence of a video
ProcessVideo(video_path) ==
    [k \in 1..TotalFrames(video_path) |-> FrameAt(video_path, k - 1, 0)]

(***************************************************************************)
(* ProgressTracker                                                         *)
(***************************************************************************)
Unset == <<>>
Some(x) == <<x>>
Get(opt) == opt[1]

\* the sessions file: absent, holding a JSON list, just truncated by
\* open(..., 'w'), or holding something json.load rejects
FileStates == {"absent", "written", "truncated", "corrupt"}

\* lines 40-53
LoadSessions(file) == IF file.state = "written" THEN file.sessions ELSE <<>>

\* lines 75-92
SessionRecord(now, video_path, analysis_results, score_results) ==
    [timestamp |-> now, video_path |-> video_path, score_results |-> score_results]

AppendSessionOverwrite(sessions, session) == <<session>>

\* line 94
AppendSession(sessions, session) == Append(sessions, session)

(***************************************************************************)
(* SmartSwingPipeline.analyze_video                                        *)
(***************************************************************************)
\* lines 68-69, with the SwingDetector() of the pipeline's constructor
DetectSegments(lms) ==
    DetectSwingPhases(CalcMotionEnergy(lms),
                      ConfigMotionThreshold * EnergyDenom, ConfigStillnessFrames,
                      ConfigMinSwingDuration, ConfigMaxSwingDuration)

\* what steps 1 and 2 compute for each video, evaluated once
VideoLandmarks == [v \in Videos |-> ProcessVideo(v)]
VideoSegments == [v \in Videos |-> DetectSegments(VideoLandmarks[v])]

NoSwingNever(swing_segments) == FALSE

\* line 71: if not swing_segments
NoSwing(swing_segments) == swing_segments = <<>>

PrimarySwingLast(swing_segments) == swing_segments[Len(swing_segments)]

\* line 78: swing_segments[0]
PrimarySwing(swing_segments) == swing_segments[1]

\* A product of the biomechanical analysis or of the scorer stands for the
\* value computed from the arguments it records.
Measure(name, video_path, positions) ==
    [metric |-> name, landmarks |-> video_path, key_positions |-> positions]

\* lines 96-130
Biomechanics(video_path, swing_segment, positions) ==
    [swing_plane |-> Measure("swing_plane", video_path, positions),
     rotation |-> Measure("rotation", video_path, positions),
     weight_transfer |-> Measure("weight_transfer", video_path, positions),
     wrist |-> Measure("wrist", video_path, positions),
     tempo |-> [metric |-> "tempo", landmarks |-> video_path,
                swing_range |-> swing_segment, key_positions |-> positions],
     errors |-> Measure("errors", video_path, positions)]

\* lines 139-141
CalculateSwingScore(metrics) ==
    [swing_plane |-> metrics.swing_plane, rotation |-> metrics.rotation,
     weight_transfer |-> metrics.weight_transfer, wrist |-> metrics.wrist,
     tempo |-> metrics.tempo]

\* lines 147-158
AnalysisResults(swing_segment, positions, metrics) ==
    [swing_segment |-> swing_segment, key_positions |-> positions,
     metrics |-> metrics]

\* line 73
NoSwingResult == [error |-> "No swing detected"]

\* lines 200-205
FullResult(analysis_results, score_results) ==
    [analysis |-> analysis_results, scores |-> score_results]

\* an IndexError leaving analyze_video
Raised == [raised |-> "IndexError"]

\* the record of an earlier, finished analysis
OldSession ==
    LET lms == ProcessVideo(OneSwingVideo)
        seg == PrimarySwing(DetectSegments(lms))
        range == <<seg[1], seg[2]>>
        positions == IdentifySwingPositions(lms, range)
        analysis == AnalysisResults(range, positions,
                                    Biomechanics(OneSwingVideo, range, positions))
    IN  SessionRecord(0, OneSwingVideo, analysis,
                      CalculateSwingScore(analysis.metrics))

NewCall(video_path, output_video_path, save_session, sessions) ==
    [video_path |-> video_path,
     output_video_path |-> output_video_path,
     save_session |-> save_session,
     swing_segments |-> Unset,
     swing_segment |-> Unset,
     key_positions |-> Unset,
     metrics |-> Unset,
     score_results |-> Unset,
     annotated |-> FALSE,         \* create_annotated_video has run
     session |-> Unset,           \* the record add_session built
     sessions_at_entry |-> sessions]   \* tracker.sessions when the call began

\* SmartSwingPipeline.__init__ -> ProgressTracker.__init__ -> _load_sessions
Construct(p) ==
    /\ pc[p] = "new"
    /\ tracker' = [tracker EXCEPT ![p] = LoadSessions(sessions_file)]
    /\ pc' = [pc EXCEPT ![p] = "idle"]
    /\ UNCHANGED <<pipelines, call, result, budget, sessions_file, clock>>
    /\ UNCHANGED <<detVars, posVars, unitVars>>

\* steps 1 and 2: process_video, calculate_motion_energy, detect_swing_phases
StartAnalysis(p) ==
    /\ pc[p] = "idle"
    /\ budget[p] > 0
    /\ \E video_path \in Videos, output_video_path \in BOOLEAN,
          save_session \in BOOLEAN :
         call' = [call EXCEPT ![p] =
                    [NewCall(video_path, output_video_path, save_session,
                             tracker[p])
                       EXCEPT !.swing_segments = Some(VideoSegments[video_path])]]
    /\ budget' = [budget EXCEPT ![p] = @ - 1]
    /\ result' = [result EXCEPT ![p] = Unset]
    /\ pc' = [pc EXCEPT ![p] = "detected"]
    /\ UNCHANGED <<pipelines, tracker, sessions_file, clock>>
    /\ UNCHANGED <<detVars, posVars, unitVars>>

\* lines 71-73
ReturnNoSwing(p) ==
    /\ pc[p] = "detected"
    /\ NoSwing(Get(call[p].swing_segments))
    /\ result' = [result EXCEPT ![p] = Some(NoSwingResult)]
    /\ pc' = [pc EXCEPT ![p] = "idle"]
    /\ UNCHANGED <<pipelines, call, tracker, budget, sessions_file, clock>>
    /\ UNCHANGED <<detVars, posVars, unitVars>>

\* lines 78-86: the primary swing and step 3, its key positions
KeyPositions(p) ==
    /\ pc[p] = "detected"
    /\ ~NoSwing(Get(call[p].swing_segments))
    /\ IF Len(Get(call[p].swing_segments)) = 0
       THEN /\ result' = [result EXCEPT ![p] = Some(Raised)]
            /\ pc' = [pc EXCEPT ![p] = "idle"]
            /\ call' = call
       ELSE LET seg == PrimarySwing(Get(call[p].swing_segments))
                range == <<seg[1], seg[2]>>
            IN  /\ call' = [call EXCEPT
                              ![p].swing_segment = Some(range),
                              ![p].key_positions =
                                 Some(IdentifySwingPositions(
                                        VideoLandmarks[call[p].video_path], range))]
                /\ pc' = [pc EXCEPT ![p] = "positions"]
                /\ result' = result
    /\ UNCHANGED <<pipelines, tracker, budget, sessions_file, clock>>
    /\ UNCHANGED <<detVars, posVars, unitVars>>

\* step 4 (lines 96-130) and step 5 (lines 139-141)
AnalyzeAndScore(p) ==
    /\ pc[p] = "positions"
    /\ LET metrics == Biomechanics(call[p].video_path, Get(call[p].swing_segment),
                                   Get(call[p].key_positions))
       IN  call' = [call EXCEPT ![p].metrics = Some(metrics),
                                ![p].score_results =
                                    Some(CalculateSwingScore(metrics))]
    /\ pc' = [pc EXCEPT ![p] = "scored"]
    /\ UNCHANGED <<pipelines, result, tracker, budget, sessions_file, clock>>
    /\ UNCHANGED <<detVars, posVars, unitVars>>

\* step 6, lines 161-178
VisualFeedback(p) ==
    /\ pc[p] = "scored"
    /\ call' = [call EXCEPT ![p].annotated = call[p].output_video_path]
    /\ pc' = [pc EXCEPT ![p] = "feedback"]
    /\ UNCHANGED <<pipelines, result, tracker, budget, sessions_file, clock>>
    /\ UNCHANGED <<detVars, posVars, unitVars>>

\* step 7, lines 181-185: add_session builds the record, appends it to
\* self.sessions and opens the file for writing, which truncates it
AddSession(p) ==
    /\ pc[p] = "feedback"
    /\ call[p].save_session
    /\ LET session ==
             SessionRecord(clock, call[p].video_path,
                           AnalysisResults(Get(call[p].swing_segment),
                                           Get(call[p].key_positions),
                                           Get(call[p].metrics)),
                           Get(call[p].score_results))
       IN  /\ tracker' = [tracker EXCEPT ![p] = AppendSession(@, session)]
           /\ call' = [call EXCEPT ![p].session = Some(session)]
    /\ clock' = clock + 1
    /\ sessions_file' = [state |-> "truncated", sessions |-> <<>>]
    /\ pc' = [pc EXCEPT ![p] = "saving"]
    /\ UNCHANGED <<pipelines, result, budget>>
    /\ UNCHANGED <<detVars, posVars, unitVars>>

\* _save_sessions, lines 57-58: json.dump of self.sessions; the data reach
\* the file when it is closed
SaveSessions(p) ==
    /\ pc[p] = "saving"
    /\ sessions_file' = [state |-> "written", sessions |-> tracker[p]]
    /\ pc' = [pc EXCEPT ![p] = "saved"]
    /\ UNCHANGED <<pipelines, call, result, tracker, budget, clock>>
    /\ UNCHANGED <<detVars, posVars, unitVars>>

\* line 181 with save_session false
SkipSession(p) ==
    /\ pc[p] = "feedback"
    /\ ~call[p].save_session
    /\ pc' = [pc EXCEPT ![p] = "saved"]
    /\ UNCHANGED <<pipelines, call, result, tracker, budget, sessions_file, clock>>
    /\ UNCHANGED <<detVars, posVars, unitVars>>

\* lines 189-205
ReturnResult(p) ==
    /\ pc[p] = "saved"
    /\ result' = [result EXCEPT ![p] =
                    Some(FullResult(AnalysisResults(Get(call[p].swing_segment),
                                                    Get(call[p].key_positions),
                                                    Get(call[p].metrics)),
                                    Get(call[p].score_results)))]
    /\ pc' = [pc EXCEPT ![p] = "idle"]
    /\ UNCHANGED <<pipelines, call, tracker, budget, sessions_file, clock>>
    /\ UNCHANGED <<detVars, posVars, unitVars>>

NextPipeline ==
    \/ \E p \in pipelines : Construct(p)
    \/ \E p \in pipelines : StartAnalysis(p)
    \/ \E p \in pipelines : ReturnNoSwing(p)
    \/ \E p \in pipelines : KeyPositions(p)
    \/ \E p \in pipelines : AnalyzeAndScore(p)
    \/ \E p \in pipelines : VisualFeedback(p)
    \/ \E p \in pipelines : AddSession(p)
    \/ \E p \in pipelines : SaveSessions(p)
    \/ \E p \in pipelines : SkipSession(p)
    \/ \E p \in pipelines : ReturnResult(p)

InitialFiles ==
    {[state |-> "absent", sessions |-> <<>>],
     [state |-> "corrupt", sessions |-> <<>>],
     [state |-> "written", sessions |-> <<>>],
     [state |-> "written", sessions |-> <<OldSession>>]}

MaxCalls == 2      \* analyze_video calls made on the one pipeline

PipeInit(running, calls) ==
    /\ pipelines = running
    /\ pc = [p \in Pipelines |-> "new"]
    /\ call = [p \in Pipelines |-> NewCall(<<>>, FALSE, FALSE, <<>>)]
    /\ result = [p \in Pipelines |-> Unset]
    /\ tracker = [p \in Pipelines |-> <<>>]
    /\ budget = [p \in Pipelines |-> IF p \in running THEN calls ELSE 0]
    /\ sessions_file \in InitialFiles
    /\ clock = 1

\* one pipeline, analysing one video after another
InitPipeline ==
    /\ landmarks_sequence = <<>>
    /\ ScanIdle
    /\ phase = "pipeline"
    /\ PosIdle
    /\ PipeInit({1}, MaxCalls)
    /\ UnitIdle

SpecPipeline == InitPipeline /\ [][NextPipeline]_vars

\* two pipelines, one per analysis, run in parallel on the same sessions file
InitParallel ==
    /\ landmarks_sequence = <<>>
    /\ ScanIdle
    /\ phase = "pipeline"
    /\ PosIdle
    /\ PipeInit({1, 2}, 1)
    /\ UnitIdle

SpecParallel == InitParallel /\ [][NextPipeline]_vars

(***************************************************************************)
(* SwingScorer.  Scores are integers: a component score counts hundredths  *)
(* of a point (ScoreUnit per point), a weight counts hundredths            *)
(* (WeightUnit per 1.0), so the weighted sum counts 1/OverallUnit points.  *)
(***************************************************************************)
\* every variable of the detector but phase
detData == <<landmarks_sequence, motion_energy, motion_threshold, stillness_frames,
             min_swing_duration, max_swing_duration, i, in_swing, swing_start,
             stillness_counter, swings, returned>>

ScoreUnit == 100
WeightUnit == 100
OverallUnit == ScoreUnit * WeightUnit

\* the components in the order calculate_swing_score lists them (lines 68-75)
ComponentOrder ==
    <<"swing_plane_consistency", "rotation_quality", "downswing_alignment",
      "wrist_hinge", "weight_transfer", "tempo">>

Components == {ComponentOrder[k] : k \in 1..Len(ComponentOrder)}

SCORING_WEIGHTS_Heavy ==
    [swing_plane_consistency |-> 25, rotation_quality |-> 20,
     downswing_alignment |-> 20, wrist_hinge |-> 15, weight_transfer |-> 10,
     tempo |-> 20]

\* config.py lines 53-60, in hundredths
SCORING_WEIGHTS ==
    [swing_plane_consistency |-> 25, rotation_quality |-> 20,
     downswing_alignment |-> 20, wrist_hinge |-> 15, weight_transfer |-> 10,
     tempo |-> 10]

\* lines 48-55: the weighted sum, in 1/OverallUnit points
OverallScore(cs) ==
    cs.swing_plane_consistency * SCORING_WEIGHTS.swing_plane_consistency
        + cs.rotation_quality * SCORING_WEIGHTS.rotation_quality
        + cs.downswing_alignment * SCORING_WEIGHTS.downswing_alignment
        + cs.wrist_hinge * SCORING_WEIGHTS.wrist_hinge
        + cs.weight_transfer * SCORING_WEIGHTS.weight_transfer
        + cs.tempo * SCORING_WEIGHTS.tempo

\* x / d rounded to the nearest integer, ties to the even one
RoundHalfEven(x, d) ==
    LET q == x \div d
        r == x % d
    IN  IF 2 * r > d \/ (2 * r = d /\ q % 2 = 1) THEN q + 1 ELSE q

\* round(score, 2) of a score counted in 1/unit points: hundredths of a point
Round2(score, unit) == RoundHalfEven(score * 100, unit)

\* f"{score:.0f}" of a score counted in 1/unit points
Format0(score, unit) == RoundHalfEven(score, unit)

GetGradeOpen(score, unit) ==
    IF score > 90 * unit THEN "A"
    ELSE IF score > 80 * unit THEN "B"
    ELSE IF score > 70 * unit THEN "C"
    ELSE IF score > 60 * unit THEN "D"
    ELSE "F"

\* _get_grade (lines 181-200) of a score counted in 1/unit points
GetGrade(score, unit) ==
    IF score >= 90 * unit THEN "A"
    ELSE IF score >= 80 * unit THEN "B"
    ELSE IF score >= 70 * unit THEN "C"
    ELSE IF score >= 60 * unit THEN "D"
    ELSE "F"

IndexOf(component) ==
    CHOOSE k \in 1..Len(ComponentOrder) : ComponentOrder[k] = component

SortedComponentsUnsorted(cs, reverse) == ComponentOrder

\* sorted(component_scores.items(), key=score, reverse=reverse): a stable
\* sort, so components of equal score keep the order of ComponentOrder
SortedComponents(cs, reverse) ==
    LET Before(d, c) ==
            \/ IF reverse THEN cs[d] > cs[c] ELSE cs[d] < cs[c]
            \/ cs[d] = cs[c] /\ IndexOf(d) < IndexOf(c)
        Rank(c) == Cardinality({d \in Components : Before(d, c)}) + 1
    IN  [k \in 1..Len(ComponentOrder) |->
            CHOOSE c \in Components : Rank(c) = k]

\* line 220
IsStrong(score) == score >= 80 * ScoreUnit

IsWeakOrEqual(score) == score <= 70 * ScoreUnit

\* line 244
IsWeak(score) == score < 70 * ScoreUnit

\* _get_strength_message: the text of the component with the score shown
GetStrengthMessage(component, score) ==
    [message |-> "strength", component |-> component,
     shown |-> Format0(score, ScoreUnit)]

\* _get_weakness_message
GetWeaknessMessage(component, score) ==
    [message |-> "weakness", component |-> component,
     shown |-> Format0(score, ScoreUnit)]

GenericStrength == [message |-> "Continue practicing to develop strengths"]
GenericWeakness == [message |-> "Great swing! Keep maintaining your form"]

\* _identify_strengths (lines 202-225)
IdentifyStrengths(cs) ==
    LET top == SubSeq(SortedComponents(cs, TRUE), 1, 3)
        Strong(c) == IsStrong(cs[c])
        kept == SelectSeq(top, Strong)
        strengths == [k \in 1..Len(kept) |-> GetStrengthMessage(kept[k], cs[kept[k]])]
    IN  IF strengths # <<>> THEN strengths ELSE <<GenericStrength>>

\* _identify_weaknesses (lines 227-249)
IdentifyWeaknesses(cs) ==
    LET bottom == SubSeq(SortedComponents(cs, FALSE), 1, 3)
        Weak(c) == IsWeak(cs[c])
        kept == SelectSeq(bottom, Weak)
        weaknesses == [k \in 1..Len(kept) |-> GetWeaknessMessage(kept[k], cs[kept[k]])]
    IN  IF weaknesses # <<>> THEN weaknesses ELSE <<GenericWeakness>>

\* the dictionary calculate_swing_score returns (lines 57-84)
SwingScore(cs) ==
    [overall_score |-> Round2(OverallScore(cs), OverallUnit),
     component_scores |-> [c \in Components |-> Round2(cs[c], ScoreUnit)],
     grade |-> GetGrade(OverallScore(cs), OverallUnit),
     strengths |-> IdentifyStrengths(cs),
     areas_for_improvement |-> IdentifyWeaknesses(cs)]

\* component scores around the thresholds of the grades, of the strengths
\* (80) and of the weaknesses (70), in hundredths of a point
ScoreValues == {0, 6999, 7000, 7999, 8000, 10000}

\* scores given to all six components at once, so that the weighted sum is
\* that score exactly
BoundaryScores ==
    {5999, 6000, 6001, 6950, 7000, 7650, 8000, 8350, 8999, 9000, 9001, 9999}

\* every component 100 but the wrist hinge at 33.31: the weighted sum is
\* 89.9965
RoundedUpScores ==
    [c \in Components |-> IF c = "wrist_hinge" THEN 3331 ELSE 100 * ScoreUnit]

CalculateScore ==
    /\ phase = "score"
    /\ swing_score' = SwingScore(component_scores)
    /\ phase' = "scored"
    /\ UNCHANGED <<detData, posVars, pipeVars, component_scores, tempo, angleVars, errVars, trackVars>>

InitScore ==
    /\ component_scores \in
          [Components -> ScoreValues]
              \cup {[c \in Components |-> v] : v \in BoundaryScores}
              \cup {RoundedUpScores}
    /\ swing_score = <<>>
    /\ tempo = <<>>
    /\ AngleIdle
    /\ landmarks_sequence = <<>>
    /\ ScanIdle
    /\ phase = "score"
    /\ PosIdle
    /\ PipeIdle
    /\ ErrIdle
    /\ TrackIdle

NextScore == CalculateScore

SpecScore == InitScore /\ [][NextScore]_vars

(***************************************************************************)
(* SwingDetector.analyze_tempo.  A ratio or a score that need not be an    *)
(* integer is the fraction num / den, den > 0.                             *)
(***************************************************************************)
\* dict.get(name, default)
KeyGet(mapping, name, default) ==
    IF name \in DOMAIN mapping THEN mapping[name] ELSE default

Max(a, b) == IF a >= b THEN a ELSE b

ScoreTempoUnclamped(ratio) ==
    [num |-> 100 * ratio.den - 20 * Abs(ratio.num - 3 * ratio.den),
     den |-> ratio.den]

\* _score_tempo (lines 193-208): max(0, 100 - 20 * |ratio - 3.0|)
ScoreTempo(ratio) ==
    [num |-> Max(0, 100 * ratio.den - 20 * Abs(ratio.num - 3 * ratio.den)),
     den |-> ratio.den]

\* analyze_tempo (lines 162-191)
AnalyzeTempoResult(range, positions) ==
    LET start == range[1]
        end == range[2]
        backswing_frames ==
            KeyGet(positions, "top", start) - KeyGet(positions, "address", start)
        downswing_frames ==
            KeyGet(positions, "impact", end) - KeyGet(positions, "top", start)
        tempo_ratio == [num |-> backswing_frames, den |-> Max(downswing_frames, 1)]
    IN  [total_frames |-> end - start,
         backswing_frames |-> backswing_frames,
         downswing_frames |-> downswing_frames,
         tempo_ratio |-> tempo_ratio,
         tempo_score |-> ScoreTempo(tempo_ratio)]

MaxTempoFrame == 5  \* last frame index of the key positions fed to analyze_tempo

\* backswing 30 frames, downswing 10 frames
TempoScenarioPositions == [address |-> 0, top |-> 30, impact |-> 40, finish |-> 50]

AnalyzeTempo ==
    /\ phase = "tempo"
    /\ tempo' = AnalyzeTempoResult(swing_range, key_positions)
    /\ phase' = "tempo_done"
    /\ UNCHANGED <<detData, posVars, pipeVars, component_scores, swing_score, angleVars, errVars, trackVars>>

InitTempo ==
    /\ \/ /\ swing_range \in {<<0, MaxTempoFrame>>, <<1, MaxTempoFrame - 1>>}
          /\ \/ key_positions \in
                   [PositionNames -> 0..MaxTempoFrame]
             \/ key_positions = EmptyMapping
       \/ /\ swing_range = <<0, 50>>
          /\ key_positions = TempoScenarioPositions
    /\ tempo = <<>>
    /\ component_scores = <<>>
    /\ swing_score = <<>>
    /\ AngleIdle
    /\ landmarks_sequence = <<>>
    /\ ScanIdle
    /\ phase = "tempo"
    /\ PipeIdle
    /\ ErrIdle
    /\ TrackIdle

NextTempo == AnalyzeTempo

SpecTempo == InitTempo /\ [][NextTempo]_vars

(***************************************************************************)
(* BiomechanicalAnalyzer._calculate_rotation_angle.  Vectors are 2D with   *)
(* integer coordinates along the eight directions that are multiples of    *)
(* 45 degrees, for which the arccos is exact; angles are in degrees.       *)
(***************************************************************************)
\* direction k is k * 45 degrees counter-clockwise from (1, 0)
DirVector ==
    << <<1, 0>>, <<1, 1>>, <<0, 1>>, <<-1, 1>>,
       <<-1, 0>>, <<-1, -1>>, <<0, -1>>, <<1, -1>> >>

MaxVectorScale == 2  \* the vectors are the directions scaled by 1..MaxVectorScale

Vectors ==
    {<<n * DirVector[k][1], n * DirVector[k][2]>> :
        k \in 1..Len(DirVector), n \in 1..MaxVectorScale}

Dot(u, v) == u[1] * v[1] + u[2] * v[2]

\* line 185; dividing both vectors by their norms does not change its sign
Cross(u, v) == u[1] * v[2] - u[2] * v[1]

\* lines 177-182: np.degrees(np.arccos(dot of the normalized vectors)),
\* from the dot product and the squared norms of the vectors as given
ArccosDegrees(dot, ref_norm2, curr_norm2) ==
    CASE dot * dot = ref_norm2 * curr_norm2 /\ dot > 0 -> 0
      [] dot * dot = ref_norm2 * curr_norm2 /\ dot < 0 -> 180
      [] 2 * dot * dot = ref_norm2 * curr_norm2 /\ dot > 0 -> 45
      [] 2 * dot * dot = ref_norm2 * curr_norm2 /\ dot < 0 -> 135
      [] dot = 0 -> 90

CalculateRotationAngleClockwise(ref, curr) ==
    LET magnitude == ArccosDegrees(Dot(ref, curr), Dot(ref, ref), Dot(curr, curr))
    IN  IF Cross(ref, curr) > 0 THEN -magnitude ELSE magnitude

\* _calculate_rotation_angle (lines 164-189)
CalculateRotationAngle(ref, curr) ==
    LET magnitude == ArccosDegrees(Dot(ref, curr), Dot(ref, ref), Dot(curr, curr))
    IN  IF Cross(ref, curr) < 0 THEN -magnitude ELSE magnitude

RotationAngle ==
    /\ phase = "angle"
    /\ angle' = CalculateRotationAngle(ref_vector, current_vector)
    /\ phase' = "angle_done"
    /\ UNCHANGED <<detData, posVars, pipeVars, scoreVars, ref_vector, current_vector, errVars, trackVars>>

InitAngle ==
    /\ ref_vector \in Vectors
    /\ current_vector \in Vectors
    /\ angle = 0
    /\ ScoreIdle
    /\ landmarks_sequence = <<>>
    /\ ScanIdle
    /\ phase = "angle"
    /\ PosIdle
    /\ PipeIdle
    /\ ErrIdle
    /\ TrackIdle

NextAngle == RotationAngle

SpecAngle == InitAngle /\ [][NextAngle]_vars

(***************************************************************************)
(* BiomechanicalAnalyzer: rotation metrics, weight transfer and the error  *)
(* predicates.  A detected frame is here the record of what these methods  *)
(* read from its landmarks: hip_y the mean y of the two hips, wrist_dx the *)
(* right wrist x minus the right shoulder x, hip_center_x the mean x of    *)
(* the hips and the x of the two ankles, all in hundredths of the image    *)
(* size, and the vectors from the left to the right hip and shoulder.      *)
(***************************************************************************)
Pose(hip_y, wrist_dx, hip_center_x, left_ankle_x, right_ankle_x, hip_vector, shoulder_vector) ==
    [hip_y |-> hip_y, wrist_dx |-> wrist_dx, hip_center_x |-> hip_center_x,
     left_ankle_x |-> left_ankle_x, right_ankle_x |-> right_ankle_x,
     hip_vector |-> hip_vector, shoulder_vector |-> shoulder_vector]

\* at address; hips and shoulders turned at the top; the wrist moving out in
\* the downswing; hips risen and weight forward at impact; feet together
AddressPose == Pose(50, 0, 50, 40, 60, <<1, 0>>, <<1, 0>>)
TopPose == Pose(50, 0, 44, 40, 60, <<1, 1>>, <<0, 1>>)
DownswingPose == Pose(50, 4, 50, 40, 60, <<1, 0>>, <<1, 1>>)
ImpactPose == Pose(40, 8, 58, 40, 60, <<1, 0>>, <<1, 0>>)
NarrowPose == Pose(50, 0, 50, 50, 50, <<1, 0>>, <<1, 0>>)

PoseValues == {None, AddressPose, TopPose, DownswingPose, ImpactPose, NarrowPose}

\* frame number f (from 0) is missing from the sequence or has no pose
Missing(lms, f) == f >= Len(lms) \/ lms[f + 1] = None

\* range(start, min(end + 1, len(landmarks_sequence)))
FrameRange(lms, start, end) == start..(Min(end + 1, Len(lms)) - 1)

\* a fraction in lowest terms is not needed: fractions are only compared
Frac(num, den) == [num |-> num, den |-> den]

MaxOf(S) == CHOOSE x \in S : \A y \in S : y <= x
MinOf(S) == CHOOSE x \in S : \A y \in S : x <= y

RotationSequenceScoreNoFloor(max_shoulder_rotation, max_hip_rotation) ==
    IF max_shoulder_rotation > max_hip_rotation
    THEN Frac(100 * (max_hip_rotation + 1)
                - 30 * Abs(max_shoulder_rotation - 2 * (max_hip_rotation + 1)),
              max_hip_rotation + 1)
    ELSE Frac(50, 1)

\* lines 155-160
RotationSequenceScore(max_shoulder_rotation, max_hip_rotation) ==
    IF max_shoulder_rotation > max_hip_rotation
    THEN Frac(Max(0, 100 * (max_hip_rotation + 1)
                      - 30 * Abs(max_shoulder_rotation - 2 * (max_hip_rotation + 1))),
              max_hip_rotation + 1)
    ELSE Frac(50, 1)

\* calculate_rotation_metrics (lines 80-162)
CalculateRotationMetricsResult(lms, positions) ==
    LET results == [hip_rotation |-> <<>>, shoulder_rotation |-> <<>>,
                    max_hip_rotation |-> 0, max_shoulder_rotation |-> 0,
                    rotation_sequence_score |-> Frac(0, 1)]
        address_frame == KeyGet(positions, "address", 0)
    IN  IF Missing(lms, address_frame) THEN results
        ELSE
          LET address_landmarks == lms[address_frame + 1]
              start == KeyGet(positions, "address", 0)
              end == KeyGet(positions, "finish", Len(lms) - 1)
              frames == FrameRange(lms, start, end)
              HipAt(f) ==
                  IF lms[f + 1] = None THEN 0
                  ELSE CalculateRotationAngle(address_landmarks.hip_vector,
                                              lms[f + 1].hip_vector)
              ShoulderAt(f) ==
                  IF lms[f + 1] = None THEN 0
                  ELSE CalculateRotationAngle(address_landmarks.shoulder_vector,
                                              lms[f + 1].shoulder_vector)
              hip_rotations == [k \in 1..Cardinality(frames) |-> HipAt(start + k - 1)]
              shoulder_rotations ==
                  [k \in 1..Cardinality(frames) |-> ShoulderAt(start + k - 1)]
              max_hip == MaxOf({Abs(hip_rotations[k]) : k \in DOMAIN hip_rotations})
              max_shoulder ==
                  MaxOf({Abs(shoulder_rotations[k]) : k \in DOMAIN shoulder_rotations})
          IN  IF frames = {} THEN results
              ELSE [hip_rotation |-> hip_rotations,
                    shoulder_rotation |-> shoulder_rotations,
                    max_hip_rotation |-> max_hip,
                    max_shoulder_rotation |-> max_shoulder,
                    rotation_sequence_score |->
                        RotationSequenceScore(max_shoulder, max_hip)]

\* config.py line 46, in thousandths
weight_shift_threshold == 150

\* lines 215-242: the weight ratio of a frame, in thousandths (the stance
\* widths of the poses divide 1000 times the offset exactly)
WeightRatio(lm) ==
    IF lm = None THEN 500
    ELSE LET foot_width == Abs(lm.right_ankle_x - lm.left_ankle_x)
         IN  IF foot_width < 1 THEN 500
             ELSE Max(0, Min(1000, (1000 * (lm.hip_center_x - lm.left_ankle_x))
                                       \div foot_width))

WeightTransferScoreUnclamped(max_weight_shift) ==
    Frac(100 * max_weight_shift, weight_shift_threshold)

\* lines 249-254
WeightTransferScore(max_weight_shift) ==
    IF max_weight_shift >= weight_shift_threshold
    THEN Frac(Min(100 * weight_shift_threshold, 100 * max_weight_shift),
              weight_shift_threshold)
    ELSE Frac(100 * max_weight_shift, weight_shift_threshold)

\* calculate_weight_transfer (lines 191-256)
CalculateWeightTransferResult(lms, positions) ==
    LET start == KeyGet(positions, "address", 0)
        end == KeyGet(positions, "finish", Len(lms) - 1)
        frames == FrameRange(lms, start, end)
        weight_ratios == [k \in 1..Cardinality(frames) |-> WeightRatio(lms[start + k])]
        ratios == {weight_ratios[k] : k \in DOMAIN weight_ratios}
    IN  IF frames = {}
        THEN [weight_distribution |-> <<>>, max_weight_shift |-> 0,
              weight_transfer_score |-> Frac(0, 1)]
        ELSE [weight_distribution |-> weight_ratios,
              max_weight_shift |-> MaxOf(ratios) - MinOf(ratios),
              weight_transfer_score |-> WeightTransferScore(MaxOf(ratios) - MinOf(ratios))]

\* _check_early_extension (lines 377-408)
CheckEarlyExtension(lms, positions) ==
    LET top_frame == KeyGet(positions, "top", 0)
        impact_frame == KeyGet(positions, "impact", Len(lms) - 1)
    IN  IF top_frame >= Len(lms) \/ impact_frame >= Len(lms) THEN FALSE
        ELSE IF lms[top_frame + 1] = None \/ lms[impact_frame + 1] = None THEN FALSE
        ELSE lms[top_frame + 1].hip_y - lms[impact_frame + 1].hip_y > 5

\* _check_over_the_top (lines 410-446)
CheckOverTheTop(lms, positions) ==
    LET top_frame == KeyGet(positions, "top", 0)
        impact_frame == KeyGet(positions, "impact", Len(lms) - 1)
    IN  IF top_frame >= Len(lms) \/ impact_frame >= Len(lms) THEN FALSE
        ELSE
          LET downswing_frames == FrameRange(lms, top_frame, impact_frame)
              window == [k \in 1..Cardinality(downswing_frames) |-> lms[top_frame + k]]
              Detected(lm) == lm # None
              valid == SelectSeq(window, Detected)
              wrist_path_x == [k \in 1..Len(valid) |-> valid[k].wrist_dx]
              half == SubSeq(wrist_path_x, 1, Len(wrist_path_x) \div 2)
          IN  IF Len(wrist_path_x) > 2
              THEN \* the mean of no difference is NaN, and NaN > 0.01 is False
                   /\ Len(half) >= 2
                   /\ half[Len(half)] - half[1] > Len(half) - 1
              ELSE FALSE

ReversePivotOrEqual(weight) == 2 * weight.max_weight_shift <= weight_shift_threshold

\* lines 364, 368, 372
ReversePivot(weight) == 2 * weight.max_weight_shift < weight_shift_threshold
FlatShoulder(rotation) ==
    rotation.rotation_sequence_score.num < 50 * rotation.rotation_sequence_score.den
SwayBelowThirty(weight) ==
    weight.weight_transfer_score.num < 30 * weight.weight_transfer_score.den

Sway(weight) ==
    weight.weight_transfer_score.num < 60 * weight.weight_transfer_score.den

\* detect_common_errors (lines 337-375)
DetectCommonErrorsResult(lms, positions, rotation, weight) ==
    (IF CheckEarlyExtension(lms, positions) THEN <<"early_extension">> ELSE <<>>)
        \o (IF CheckOverTheTop(lms, positions) THEN <<"over_the_top">> ELSE <<>>)
        \o (IF ReversePivot(weight) THEN <<"reverse_pivot">> ELSE <<>>)
        \o (IF FlatShoulder(rotation) THEN <<"flat_shoulder">> ELSE <<>>)
        \o (IF Sway(weight) THEN <<"sway">> ELSE <<>>)

MaxPoseFrames == 5  \* longest landmark sequence fed to the analyzer

CalculateRotationMetrics ==
    /\ phase = "rotation"
    /\ rotation_metrics' = CalculateRotationMetricsResult(landmarks_sequence, key_positions)
    /\ phase' = "weight"
    /\ UNCHANGED <<detData, posVars, pipeVars, scoreVars, angleVars, weight_metrics,
                   errors, trackVars>>

CalculateWeightTransfer ==
    /\ phase = "weight"
    /\ weight_metrics' = CalculateWeightTransferResult(landmarks_sequence, key_positions)
    /\ phase' = "errors"
    /\ UNCHANGED <<detData, posVars, pipeVars, scoreVars, angleVars, rotation_metrics,
                   errors, trackVars>>

DetectCommonErrors ==
    /\ phase = "errors"
    /\ errors' = DetectCommonErrorsResult(landmarks_sequence, key_positions,
                                          rotation_metrics, weight_metrics)
    /\ phase' = "errors_done"
    /\ UNCHANGED <<detData, posVars, pipeVars, scoreVars, angleVars, rotation_metrics,
                   weight_metrics, trackVars>>

\* the key positions identify_swing_positions can return for a segment that
\* spans a sequence of n frames, and the empty mapping
PosePositions(n) ==
    {[address |-> 0, top |-> t, impact |-> ImpactIdx(n), finish |-> n - 1] :
        t \in 0..Max(0, n \div 2 - 1)}

InitErrors ==
    /\ landmarks_sequence \in SeqsUpTo(MaxPoseFrames, PoseValues)
    /\ \/ Len(landmarks_sequence) >= 1
          /\ key_positions \in PosePositions(Len(landmarks_sequence))
       \/ key_positions = EmptyMapping
    /\ swing_range = <<0, Len(landmarks_sequence) - 1>>
    /\ ErrIdle
    /\ TrackIdle
    /\ ScoreIdle
    /\ AngleIdle
    /\ ScanIdle
    /\ phase = "rotation"
    /\ PipeIdle

NextErrors == CalculateRotationMetrics \/ CalculateWeightTransfer \/ DetectCommonErrors

SpecErrors == InitErrors /\ [][NextErrors]_vars

\* calculate_weight_transfer and detect_common_errors on stances 40 wide
\* (ankles at 30 and 70) with the hip centre left of the stance, in the
\* middle, 50, 75, 100 and 150 thousandths of the stance right of the
\* middle, and right of the stance
HipCentreValues == {25, 50, 52, 53, 54, 56, 75}

StancePose(hip_center_x) == Pose(50, 0, hip_center_x, 30, 70, <<1, 0>>, <<1, 0>>)

StancePoseValues == {None, NarrowPose} \cup {StancePose(x) : x \in HipCentreValues}

MaxStanceFrames == 3  \* longest sequence of stances fed to the analyzer

InitWeight ==
    /\ landmarks_sequence \in SeqsUpTo(MaxStanceFrames, StancePoseValues)
    /\ \/ Len(landmarks_sequence) >= 1
          /\ key_positions \in PosePositions(Len(landmarks_sequence))
       \/ key_positions = EmptyMapping
    /\ swing_range = <<0, Len(landmarks_sequence) - 1>>
    /\ ErrIdle
    /\ TrackIdle
    /\ ScoreIdle
    /\ AngleIdle
    /\ ScanIdle
    /\ phase = "rotation"
    /\ PipeIdle

SpecWeight == InitWeight /\ [][NextErrors]_vars

\* detect_common_errors on its own, called as analyze_video calls it with
\* the results of calculate_rotation_metrics and calculate_weight_transfer:
\* frames that differ in hip height and wrist position, weight shifts at,
\* just below and above threshold / 2 (0.075), 0.09 (score 60) and the
\* threshold, and pairs of shoulder and hip maxima scoring 40, exactly 50
\* (either branch) and 98.7
RisenPose == Pose(45, 0, 50, 40, 60, <<1, 0>>, <<1, 0>>)

HeightPoseValues == {None, AddressPose, ImpactPose, RisenPose}

ShiftValues == {0, 74, 75, 89, 90, 150}

RotationMaxima == {<<12, 2>>, <<11, 2>>, <<0, 0>>, <<90, 45>>}

WeightMetricsOf(shift) ==
    [weight_distribution |-> <<500, 500 + shift>>,
     max_weight_shift |-> shift,
     weight_transfer_score |-> WeightTransferScore(shift)]

RotationMetricsOf(maxima) ==
    [hip_rotation |-> <<0, maxima[2]>>,
     shoulder_rotation |-> <<0, maxima[1]>>,
     max_hip_rotation |-> maxima[2],
     max_shoulder_rotation |-> maxima[1],
     rotation_sequence_score |-> RotationSequenceScore(maxima[1], maxima[2])]

MaxErrorFrames == 4  \* longest landmark sequence fed to detect_common_errors

InitCommonErrors ==
    /\ landmarks_sequence \in SeqsUpTo(MaxErrorFrames, HeightPoseValues)
    /\ \/ Len(landmarks_sequence) >= 1
          /\ key_positions \in PosePositions(Len(landmarks_sequence))
       \/ key_positions = EmptyMapping
    /\ swing_range = <<0, Len(landmarks_sequence) - 1>>
    /\ rotation_metrics \in {RotationMetricsOf(m) : m \in RotationMaxima}
    /\ weight_metrics \in {WeightMetricsOf(shift) : shift \in ShiftValues}
    /\ errors = <<>>
    /\ TrackIdle
    /\ ScoreIdle
    /\ AngleIdle
    /\ ScanIdle
    /\ phase = "errors"
    /\ PipeIdle

NextCommonErrors == DetectCommonErrors

SpecCommonErrors == InitCommonErrors /\ [][NextCommonErrors]_vars

\* analyze_video: identify_swing_positions on a segment, then analyze_tempo
\* on the positions it returned
AnalyzeSegmentTempo ==
    /\ phase = "positioned"
    /\ tempo' = AnalyzeTempoResult(swing_range, key_positions)
    /\ phase' = "tempo_done"
    /\ UNCHANGED <<detData, posVars, pipeVars, component_scores, swing_score,
                   angleVars, errVars, trackVars>>

MaxTempoSegment == 40  \* longest segment with every placement of the top

\* a segment of n frames whose lowest right-wrist y is at frame m - 1
TempoSegments ==
    UNION {{[k \in 1..n |-> IF k = m THEN Frame(0) ELSE Frame(1)] : m \in 1..n} :
              n \in 1..MaxTempoSegment}

InitSegmentTempo ==
    /\ landmarks_sequence \in TempoSegments \cup LongLandmarks
    /\ swing_range = <<0, Len(landmarks_sequence) - 1>>
    /\ key_positions = EmptyMapping
    /\ UnitIdle
    /\ ScanIdle
    /\ phase = "positions"
    /\ PipeIdle

NextSegmentTempo == IdentifyPositions \/ AnalyzeSegmentTempo

SpecSegmentTempo == InitSegmentTempo /\ [][NextSegmentTempo]_vars

(***************************************************************************)
(* ProgressTracker.add_session and get_session, called directly on one     *)
(* tracker (tracker[1]) built on an absent sessions file.  The clock counts *)
(* ticks of which TicksPerSecond make a second.                            *)
(***************************************************************************)
TicksPerSecond == 2

\* line 75: datetime.now().strftime("%Y%m%d_%H%M%S"), the time cut to the second
SessionId(now) == now \div TicksPerSecond

\* lines 77-92: the record add_session builds (isoformat keeps the fraction
\* of the second)
TrackedSession(now, video_path) ==
    [session_id |-> SessionId(now), timestamp |-> now, video_path |-> video_path]

\* get_session (lines 99-112): the first record with that id, or None
GetSessionResult(sessions, session_id) ==
    LET matches == {k \in 1..Len(sessions) : sessions[k].session_id = session_id}
    IN  IF matches = {} THEN Unset ELSE Some(sessions[MinOf(matches)])

MaxSessions == 3   \* add_session calls made on the tracker
MaxClock == 3      \* last tick of the clock

TrackedVideos == {OneSwingVideo, TwoSwingsVideo}

\* add_session (lines 60-97)
AddSessionCall ==
    /\ phase = "tracker"
    /\ Len(session_ids) < MaxSessions
    /\ \E video_path \in TrackedVideos :
          tracker' = [tracker EXCEPT
                        ![1] = AppendSession(@, TrackedSession(clock, video_path))]
    /\ sessions_file' = [state |-> "written", sessions |-> tracker'[1]]
    /\ session_ids' = Append(session_ids, SessionId(clock))
    /\ UNCHANGED <<pipelines, pc, call, result, budget, clock, lookup>>
    /\ UNCHANGED <<detVars, posVars, scoreVars, angleVars, errVars>>

\* get_session with the id an earlier add_session call returned
GetSessionCall ==
    /\ phase = "tracker"
    /\ \E k \in 1..Len(session_ids) :
          lookup' = [call |-> k, session_id |-> session_ids[k],
                     session |-> GetSessionResult(tracker[1], session_ids[k])]
    /\ UNCHANGED <<pipeVars, session_ids>>
    /\ UNCHANGED <<detVars, posVars, scoreVars, angleVars, errVars>>

\* time passes between the calls
Tick ==
    /\ phase = "tracker"
    /\ clock < MaxClock
    /\ clock' = clock + 1
    /\ UNCHANGED <<pipelines, pc, call, result, tracker, budget, sessions_file>>
    /\ UNCHANGED <<detVars, posVars, unitVars>>

InitTracker ==
    /\ landmarks_sequence = <<>>
    /\ ScanIdle
    /\ phase = "tracker"
    /\ PosIdle
    /\ pipelines = {}
    /\ pc = [p \in Pipelines |-> "idle"]
    /\ call = [p \in Pipelines |-> NewCall(<<>>, FALSE, FALSE, <<>>)]
    /\ result = [p \in Pipelines |-> Unset]
    /\ tracker = [p \in Pipelines |-> <<>>]
    /\ budget = [p \in Pipelines |-> 0]
    /\ sessions_file = [state |-> "absent", sessions |-> <<>>]
    /\ clock = 0
    /\ UnitIdle

NextTracker == AddSessionCall \/ GetSessionCall \/ Tick

SpecTracker == InitTracker /\ [][NextTracker]_vars

(***************************************************************************)
(* Claims                                                                  *)
(***************************************************************************)
SegStart(s) == s[1]
SegEnd(s) == s[2]

C2_OpenSwingDropped ==
    /\ [](phase = "done" /\ in_swing =>
            /\ returned = swings
            /\ \A k \in 1..Len(returned) : SegEnd(returned[k]) < swing_start)
    /\ [][swings' # swings =>
            /\ in_swing
            /\ motion_energy[i + 1] < motion_threshold
            /\ stillness_counter + 1 >= stillness_frames
            /\ swings' = Append(swings, <<swing_start, i - stillness_frames,
                                          "full_swing">>)]_vars

C2_Witness ==
    /\ phase = "done"
    /\ in_swing
    /\ Len(returned) = 1
    /\ min_swing_duration > 0
    /\ (Len(motion_energy) - 1) - swing_start >= min_swing_duration
    /\ (Len(motion_energy) - 1) - swing_start <= max_swing_duration

SmoothingLag == velocity_smoothing_window \div 2

\* C3 as stated: the scenario yields exactly one segment, starting within
\* the smoothing lag of frame 20 and ending within it of frame
\* 70 - stillness_frames.
C3_ScenarioAsClaimed ==
    phase = "done" /\ landmarks_sequence = ScenarioLandmarks =>
        /\ Len(returned) = 1
        /\ Abs(SegStart(returned[1]) - 20) <= SmoothingLag
        /\ Abs(SegEnd(returned[1]) - (70 - stillness_frames)) <= SmoothingLag

\* C3 amended: the scenario yields exactly one segment, starting within the
\* smoothing lag of frame 20 and ending within it of frame 70, the last
\* moving frame (the swing closes at frame 70 + stillness_frames and the
\* stillness_frames trailing frames are backed out).
C3_ScenarioSegment ==
    phase = "done" /\ landmarks_sequence = ScenarioLandmarks =>
        /\ Len(returned) = 1
        /\ Abs(SegStart(returned[1]) - 20) <= SmoothingLag
        /\ Abs(SegEnd(returned[1]) - 70) <= SmoothingLag

C3_Witness ==
    /\ phase = "done"
    /\ landmarks_sequence = ScenarioLandmarks
    /\ Len(returned) = 1

\* C4: every value of the sequence calculate_motion_energy returns is >= 0,
\* smoothed or not.
C4_EnergyNonNegative ==
    phase # "energy" => \A k \in 1..Len(motion_energy) : motion_energy[k] >= 0

InRange(lms, range) ==
    /\ 0 <= range[1]
    /\ range[1] <= range[2]
    /\ range[2] < Len(lms)

SegLength(range) == range[2] - range[1] + 1

\* C5: for a segment of L >= 2 frames within the sequence the mapping has
\* start = address <= top <= impact <= finish = end, 0 <= top - start < L/2
\* and impact - start = floor(0.8 L).
C5_PositionsOrdered ==
    phase = "positioned" /\ InRange(landmarks_sequence, swing_range)
        /\ SegLength(swing_range) >= 2 =>
        /\ DOMAIN key_positions = PositionNames
        /\ key_positions.address = swing_range[1]
        /\ key_positions.address <= key_positions.top
        /\ key_positions.top <= key_positions.impact
        /\ key_positions.impact <= key_positions.finish
        /\ key_positions.finish = swing_range[2]
        /\ 2 * (key_positions.top - swing_range[1]) < SegLength(swing_range)
        /\ 5 * (key_positions.impact - swing_range[1]) <= 4 * SegLength(swing_range)
        /\ 4 * SegLength(swing_range) < 5 * (key_positions.impact - swing_range[1]) + 5

C5_Witness ==
    /\ phase = "positioned"
    /\ InRange(landmarks_sequence, swing_range)
    /\ SegLength(swing_range) >= 4
    /\ key_positions.top > key_positions.address
    /\ \E k \in (swing_range[1] + 1)..(swing_range[2] + 1) :
           landmarks_sequence[k] = None

AllMissing(lms, range) ==
    \A k \in 1..Len(Slice(lms, range[1], range[2])) :
        Slice(lms, range[1], range[2])[k] = None

Full(r) == DOMAIN r = {"analysis", "scores"}

\* C7: a call that detected no segment returns the 'No swing detected' error
\* and has identified no key positions, computed no metrics and no scores,
\* generated no annotated video and saved no session; every other call
\* returns a full result holding the scores it computed.  No call ends
\* otherwise.
C7_NoSwingHalts ==
    \A p \in pipelines : result[p] # Unset =>
        LET r == Get(result[p])
            c == call[p]
        IN  IF Get(c.swing_segments) = <<>>
            THEN /\ DOMAIN r = {"error"}
                 /\ r.error = "No swing detected"
                 /\ c.swing_segment = Unset
                 /\ c.key_positions = Unset
                 /\ c.metrics = Unset
                 /\ c.score_results = Unset
                 /\ ~c.annotated
                 /\ c.session = Unset
                 /\ tracker[p] = c.sessions_at_entry
            ELSE /\ Full(r)
                 /\ c.score_results # Unset
                 /\ r.scores = Get(c.score_results)

C7_Witness ==
    \E p \in pipelines :
        /\ result[p] # Unset
        /\ Get(call[p].swing_segments) = <<>>
        /\ call[p].output_video_path
        /\ call[p].save_session
        /\ Len(ProcessVideo(call[p].video_path)) > ConfigMinSwingDuration

\* the detected segment with the smallest start frame
FirstSegment(segs) ==
    CHOOSE s \in {segs[k] : k \in 1..Len(segs)} :
        \A k \in 1..Len(segs) : SegStart(s) <= SegStart(segs[k])

\* C8: whatever was detected, the analysed swing is the detected segment
\* with the smallest start frame: the key positions are those of that
\* segment, every metric and the scores are computed from those key
\* positions, and the result reports them.
C8_FirstSegmentAnalyzed ==
    \A p \in pipelines : call[p].swing_segment # Unset =>
        LET c == call[p]
            first == FirstSegment(Get(c.swing_segments))
            range == <<SegStart(first), SegEnd(first)>>
            positions == IdentifySwingPositions(VideoLandmarks[c.video_path], range)
        IN  /\ Get(c.swing_segment) = range
            /\ Get(c.key_positions) = positions
            /\ c.metrics # Unset =>
                  /\ \A m \in DOMAIN Get(c.metrics) :
                        Get(c.metrics)[m].key_positions = positions
                  /\ Get(c.metrics).tempo.swing_range = range
                  /\ Get(c.score_results).tempo = Get(c.metrics).tempo
            /\ result[p] # Unset =>
                  /\ Get(result[p]).analysis.swing_segment = range
                  /\ Get(result[p]).analysis.key_positions = positions
                  /\ Get(result[p]).scores = Get(c.score_results)

C8_Witness ==
    \E p \in pipelines :
        /\ result[p] # Unset
        /\ Full(Get(result[p]))
        /\ Len(Get(call[p].swing_segments)) >= 2

\* C9 as stated: every call that completes with scores has appended exactly
\* one session record.
C9_EveryCompletedCallSaves ==
    \A p \in pipelines : result[p] # Unset /\ Full(Get(result[p])) =>
        /\ call[p].session # Unset
        /\ Len(tracker[p]) = Len(call[p].sessions_at_entry) + 1

\* C9 amended: a call made with save_session true that completes with scores
\* has appended exactly one record, that of its video, to the tracker's
\* sessions, after the records held before and leaving them as they were,
\* and the sessions file holds that list; a call made with save_session
\* false, or ending in 'No swing detected', has appended none.  The
\* tracker's sessions only ever change by one record appended at the end.
C9_SessionAppendedOncePerSavedCall ==
    /\ [](\A p \in pipelines : result[p] # Unset =>
            LET c == call[p]
            IN  IF Full(Get(result[p])) /\ c.save_session
                THEN /\ c.session # Unset
                     /\ tracker[p] = Append(c.sessions_at_entry, Get(c.session))
                     /\ Get(c.session).video_path = c.video_path
                     /\ sessions_file.state = "written"
                     /\ sessions_file.sessions = tracker[p]
                ELSE /\ c.session = Unset
                     /\ tracker[p] = c.sessions_at_entry)
    /\ [][\A p \in pipelines : tracker'[p] # tracker[p] =>
            \/ pc[p] = "new"
            \/ /\ Len(tracker'[p]) = Len(tracker[p]) + 1
               /\ SubSeq(tracker'[p], 1, Len(tracker[p])) = tracker[p]]_vars

C9_Witness ==
    \E p \in pipelines :
        /\ result[p] # Unset
        /\ Full(Get(result[p]))
        /\ call[p].save_session
        /\ Len(call[p].sessions_at_entry) >= 1
        /\ Len(tracker[p]) = Len(call[p].sessions_at_entry) + 1

\* C10: once the parallel analyses have all finished, the sessions file
\* holds the session record of every analysis that saved one.
C10_NoRecordLost ==
    (\A p \in pipelines : pc[p] = "idle" /\ budget[p] = 0) =>
        \A p \in pipelines : call[p].session # Unset =>
            /\ sessions_file.state = "written"
            /\ \E k \in 1..Len(sessions_file.sessions) :
                  sessions_file.sessions[k] = Get(call[p].session)

\* C11: whenever each of the six component scores lies in [0,100] the
\* overall_score calculate_swing_score returns lies in [0,100].
C11_OverallScoreInRange ==
    phase = "scored"
        /\ (\A c \in Components :
               0 <= component_scores[c] /\ component_scores[c] <= 100 * ScoreUnit) =>
        /\ 0 <= swing_score.overall_score
        /\ swing_score.overall_score <= 100 * 100

C11_Witness ==
    /\ phase = "scored"
    /\ \A c \in Components : component_scores[c] = 100 * ScoreUnit
    /\ swing_score.overall_score = 100 * 100

\* C12: the grade is A iff score >= 90, B iff 80 <= score < 90, C iff
\* 70 <= score < 80, D iff 60 <= score < 70 and F iff score < 60, where
\* score is the weighted sum handed to _get_grade; so exactly one grade.
C12_GradeThresholds ==
    phase = "scored" =>
        LET score == OverallScore(component_scores)
            u == OverallUnit
            grade == swing_score.grade
        IN  /\ grade \in {"A", "B", "C", "D", "F"}
            /\ grade = "A" <=> score >= 90 * u
            /\ grade = "B" <=> 80 * u <= score /\ score < 90 * u
            /\ grade = "C" <=> 70 * u <= score /\ score < 80 * u
            /\ grade = "D" <=> 60 * u <= score /\ score < 70 * u
            /\ grade = "F" <=> score < 60 * u

C12_Witness ==
    /\ phase = "scored"
    /\ OverallScore(component_scores) = 90 * OverallUnit
    /\ swing_score.grade = "A"

\* the components a list of messages names, in order
Named(messages) == [k \in 1..Len(messages) |-> messages[k].component]

NamedSet(messages) == {messages[k].component : k \in 1..Len(messages)}

\* C13: if no component scores >= 80 the strengths are the one generic
\* string; otherwise they are at most 3 messages, of distinct components
\* each scoring >= 80, highest score first, no component left out scores
\* more than a listed one, and a component scoring >= 80 is left out only
\* when 3 are listed.
C13_StrengthsTopThree ==
    phase = "scored" =>
        LET cs == component_scores
            strengths == swing_score.strengths
        IN  /\ Len(strengths) >= 1
            /\ Len(strengths) <= 3
            /\ IF \A c \in Components : ~(cs[c] >= 80 * ScoreUnit)
               THEN strengths = <<GenericStrength>>
               ELSE /\ \A k \in 1..Len(strengths) :
                          /\ DOMAIN strengths[k] = {"message", "component", "shown"}
                          /\ strengths[k].message = "strength"
                          /\ strengths[k].component \in Components
                          /\ cs[strengths[k].component] >= 80 * ScoreUnit
                    /\ Cardinality(NamedSet(strengths)) = Len(strengths)
                    /\ \A k \in 1..(Len(strengths) - 1) :
                          cs[strengths[k].component] >= cs[strengths[k + 1].component]
                    /\ \A c \in NamedSet(strengths) :
                          \A d \in Components \ NamedSet(strengths) : cs[d] <= cs[c]
                    /\ \A d \in Components \ NamedSet(strengths) :
                          cs[d] >= 80 * ScoreUnit => Len(strengths) = 3

C13_Witness ==
    /\ phase = "scored"
    /\ Len(swing_score.strengths) = 2
    /\ swing_score.strengths[1].component = "tempo"
    /\ swing_score.strengths[2].component = "rotation_quality"
    /\ component_scores.swing_plane_consistency < 80 * ScoreUnit

\* C14: if no component scores < 70 the areas for improvement are the one
\* generic string; otherwise they are at most 3 messages, of distinct
\* components each scoring < 70, lowest score first, no component left out
\* scores less than a listed one, and a component scoring < 70 is left out
\* only when 3 are listed.  No component is named both in the strengths and
\* in the areas for improvement.
C14_WeaknessesBottomThree ==
    phase = "scored" =>
        LET cs == component_scores
            weaknesses == swing_score.areas_for_improvement
            strengths == swing_score.strengths
        IN  /\ Len(weaknesses) >= 1
            /\ Len(weaknesses) <= 3
            /\ IF \A c \in Components : ~(cs[c] < 70 * ScoreUnit)
               THEN weaknesses = <<GenericWeakness>>
               ELSE /\ \A k \in 1..Len(weaknesses) :
                          /\ DOMAIN weaknesses[k] = {"message", "component", "shown"}
                          /\ weaknesses[k].message = "weakness"
                          /\ weaknesses[k].component \in Components
                          /\ cs[weaknesses[k].component] < 70 * ScoreUnit
                    /\ Cardinality(NamedSet(weaknesses)) = Len(weaknesses)
                    /\ \A k \in 1..(Len(weaknesses) - 1) :
                          cs[weaknesses[k].component] <= cs[weaknesses[k + 1].component]
                    /\ \A c \in NamedSet(weaknesses) :
                          \A d \in Components \ NamedSet(weaknesses) : cs[d] >= cs[c]
                    /\ \A d \in Components \ NamedSet(weaknesses) :
                          cs[d] < 70 * ScoreUnit => Len(weaknesses) = 3
                    /\ strengths # <<GenericStrength>> =>
                          NamedSet(weaknesses) \cap NamedSet(strengths) = {}

C14_Witness ==
    /\ phase = "scored"
    /\ Len(swing_score.areas_for_improvement) = 3
    /\ swing_score.areas_for_improvement # <<GenericWeakness>>
    /\ swing_score.strengths # <<GenericStrength>>
    /\ \E c \in Components : component_scores[c] = 70 * ScoreUnit
    /\ Cardinality({c \in Components : component_scores[c] < 70 * ScoreUnit}) = 4

\* C15: analyze_tempo returns backswing_frames = top - address,
\* downswing_frames = impact - top, tempo_ratio = backswing_frames /
\* max(downswing_frames, 1) and tempo_score = max(0, 100 - 20 |ratio - 3|);
\* the score lies in [0,100], is 100 only when the ratio is exactly 3, and
\* backswing 30 with downswing 10 gives ratio 3 and score 100.
C15_TempoFormula ==
    phase = "tempo_done" =>
        LET start == swing_range[1]
            end == swing_range[2]
            top == IF "top" \in DOMAIN key_positions THEN key_positions.top ELSE start
            address == IF "address" \in DOMAIN key_positions
                       THEN key_positions.address ELSE start
            impact == IF "impact" \in DOMAIN key_positions
                      THEN key_positions.impact ELSE end
            ratio == tempo.tempo_ratio
            score == tempo.tempo_score
        IN  /\ tempo.backswing_frames = top - address
            /\ tempo.downswing_frames = impact - top
            /\ ratio.den = (IF impact - top >= 1 THEN impact - top ELSE 1)
            /\ ratio.num = top - address
            /\ score.den = ratio.den
            /\ LET exact == 100 * ratio.den - 20 * Abs(ratio.num - 3 * ratio.den)
               IN  score.num = (IF exact > 0 THEN exact ELSE 0)
            /\ 0 <= score.num
            /\ score.num <= 100 * score.den
            /\ score.num = 100 * score.den <=> ratio.num = 3 * ratio.den
            /\ top - address = 30 /\ impact - top = 10 =>
                  /\ ratio.num = 3 * ratio.den
                  /\ score.num = 100 * score.den

C15_Witness ==
    /\ phase = "tempo_done"
    /\ tempo.backswing_frames = 30
    /\ tempo.downswing_frames = 10
    /\ tempo.tempo_score.num = 100 * tempo.tempo_score.den

\* the direction, 0..7 in steps of 45 degrees counter-clockwise, of a vector
DirOf(v) ==
    CHOOSE k \in 0..7 : \E n \in 1..(MaxVectorScale + 1) :
        v = <<n * DirVector[k + 1][1], n * DirVector[k + 1][2]>>

\* the unsigned angle between two vectors, from their directions
UnsignedAngle(u, v) ==
    LET d == Abs(DirOf(u) - DirOf(v))
    IN  45 * (IF d <= 4 THEN d ELSE 8 - d)

Emitted == {errors[k] : k \in 1..Len(errors)}

\* C16: a predicate whose frames are missing emits no label: not
\* early_extension when the top or the impact frame is missing, not
\* over_the_top when every frame from top to impact is missing, not
\* flat_shoulder when the address frame is missing, and neither
\* reverse_pivot nor sway when every frame of the segment is missing.
C16_ErrorsFailClosed ==
    phase = "errors_done" =>
        LET lms == landmarks_sequence
            address == KeyGet(key_positions, "address", 0)
            top == KeyGet(key_positions, "top", 0)
            impact == KeyGet(key_positions, "impact", Len(lms) - 1)
            finish == KeyGet(key_positions, "finish", Len(lms) - 1)
        IN  /\ Missing(lms, top) \/ Missing(lms, impact) =>
                  "early_extension" \notin Emitted
            /\ (\A f \in top..impact : Missing(lms, f)) => "over_the_top" \notin Emitted
            /\ Missing(lms, address) => "flat_shoulder" \notin Emitted
            /\ (\A f \in address..finish : Missing(lms, f)) =>
                  /\ "reverse_pivot" \notin Emitted
                  /\ "sway" \notin Emitted

\* the run frames ending at frame j all come after the swing start and all
\* have energy strictly below the threshold
StillRunEndsAt(j, run) ==
    /\ j - run + 1 > swing_start
    /\ \A f \in (j - run + 1)..j : motion_energy[f + 1] < motion_threshold

\* the loop body runs on frame i while a swing is open
InSwingStep == phase = "scan" /\ in_swing /\ i' = i + 1

\* what the loop body does besides closing: a closing step appends at most
\* the segment ending at i - stillness_frames, the stillness_frames frames
\* after that end are all below the threshold, and a frame at or above the
\* threshold sets the stillness counter to 0
CloseEffects ==
    /\ ~in_swing' =>
          /\ swings' \in {swings,
                          Append(swings, <<swing_start, i - stillness_frames,
                                           "full_swing">>)}
          /\ \A f \in (i - stillness_frames + 1)..i :
                motion_energy[f + 1] < motion_threshold
          /\ stillness_counter' = 0
    /\ in_swing' => swings' = swings
    /\ motion_energy[i + 1] >= motion_threshold =>
          in_swing' /\ stillness_counter' = 0

\* C18 as stated: an open swing closes on frame i exactly when the
\* stillness_frames frames ending at i are all after the swing start and
\* strictly below the threshold (so at the first such frame), the segment
\* then ends at i - stillness_frames, and a frame at or above the threshold
\* resets the counter.
C18_CloseAsClaimed ==
    [][InSwingStep =>
          /\ ~in_swing' <=> StillRunEndsAt(i, stillness_frames)
          /\ CloseEffects]_vars

\* C18 amended: the same with a run of max(stillness_frames, 1) frames: a
\* swing only ever closes on a frame strictly below the threshold, so with
\* stillness_frames = 0 it closes on the first frame below the threshold
\* after the start (not at once), and that frame is the segment's end.
C18_CloseAtStillness ==
    [][InSwingStep =>
          /\ ~in_swing' <=> StillRunEndsAt(i, Max(stillness_frames, 1))
          /\ CloseEffects]_vars

\* a swing was closed and collected after an earlier quiet frame inside it
\* had its count reset
C18_Witness ==
    /\ phase = "done"
    /\ stillness_frames = 2
    /\ Len(returned) = 1
    /\ \E f \in SegStart(returned[1])..SegEnd(returned[1]) :
          motion_energy[f + 1] < motion_threshold

\* the loop state before frame k of the sequence being scanned
StateBefore(k) ==
    ScanFrom(ScanInit, motion_energy, 0, k, motion_threshold,
             stillness_frames, min_swing_duration, max_swing_duration)

\* frame c is one on which an open swing closes
ClosedAt(c) == StateBefore(c).in_swing /\ ~StateBefore(c + 1).in_swing

\* the first frame of the idle stretch that frame k ends: frame 0, or the
\* frame after the last closing frame before k
IdleSince(k) == MaxOf({0} \cup {c + 1 : c \in {d \in 0..(k - 1) : ClosedAt(d)}})

\* the loop body runs on frame i while no swing is open
IdleStep == phase = "scan" /\ ~in_swing /\ i' = i + 1

\* C19: an idle scan opens a swing on frame i exactly when the energy of i
\* is strictly above the threshold (not when it is equal), then with
\* swing_start = i and the stillness counter 0, and otherwise changes
\* nothing; the start of an open swing is the first frame above the
\* threshold since frame 0 or since the frame after the previous close.
C19_StartAboveThreshold ==
    /\ [][IdleStep =>
            /\ in_swing' <=> motion_energy[i + 1] > motion_threshold
            /\ in_swing' => swing_start' = i /\ stillness_counter' = 0
            /\ ~in_swing' => UNCHANGED <<swing_start, stillness_counter>>
            /\ swings' = swings]_vars
    /\ [](in_swing =>
            /\ swing_start < i
            /\ motion_energy[swing_start + 1] > motion_threshold
            /\ \A f \in IdleSince(swing_start)..(swing_start - 1) :
                  motion_energy[f + 1] <= motion_threshold)

\* a second swing is open, started right after a frame whose energy equals
\* the threshold, and the first swing was closed and collected
C19_Witness ==
    /\ in_swing
    /\ Len(swings) = 1
    /\ swing_start > SegEnd(swings[1]) + stillness_frames + 1
    /\ motion_energy[swing_start] = motion_threshold
    /\ IdleSince(swing_start) = SegEnd(swings[1]) + stillness_frames + 1

\* the energy sequence with frames a .. b at rest
Quieted(energy, a, b) ==
    [k \in 1..Len(energy) |-> IF a + 1 <= k /\ k <= b + 1 THEN 0 ELSE energy[k]]

\* the loop body runs on a frame that closes the open swing with a duration
\* outside [min_swing_duration, max_swing_duration]
RejectStep ==
    /\ phase = "scan"
    /\ i' = i + 1
    /\ in_swing
    /\ motion_energy[i + 1] < motion_threshold
    /\ stillness_counter + 1 >= stillness_frames
    /\ LET swing_duration == (i - stillness_frames) - swing_start
       IN  swing_duration < min_swing_duration \/ swing_duration > max_swing_duration

\* C20: a swing that closes with a duration outside the range appends
\* nothing and leaves the scan idle with the stillness counter 0, and the
\* segments detected on the sequence are those detected on the same
\* sequence with the frames of the rejected swing at rest.
C20_RejectedSwingLeavesNoTrace ==
    [][RejectStep =>
          /\ swings' = swings
          /\ ~in_swing'
          /\ stillness_counter' = 0
          /\ DetectSwingPhases(motion_energy, motion_threshold,
                               stillness_frames, min_swing_duration,
                               max_swing_duration)
             = DetectSwingPhases(Quieted(motion_energy, swing_start, i),
                                 motion_threshold, stillness_frames,
                                 min_swing_duration, max_swing_duration)]_vars

\* a swing was rejected on frame c and a later swing of the same sequence
\* was collected
C20_Witness ==
    /\ phase = "done"
    /\ Len(returned) = 1
    /\ \E c \in 0..(SegStart(returned[1]) - 1) :
          /\ ClosedAt(c)
          /\ StateBefore(c + 1).swings = <<>>

\* C21: the segments returned are those the loop computes from the energy
\* sequence and the four thresholds alone, and both the segments collected
\* so far and those returned are in order and disjoint: each next segment
\* starts strictly after the end of the one before plus stillness_frames.
C21_SegmentsOrderedDisjoint ==
    /\ phase = "done" =>
          returned = DetectSwingPhases(motion_energy, motion_threshold,
                                       stillness_frames, min_swing_duration,
                                       max_swing_duration)
    /\ \A sw \in {swings, returned} : \A k \in 1..(Len(sw) - 1) :
          /\ SegStart(sw[k]) <= SegEnd(sw[k])
          /\ SegStart(sw[k + 1]) > SegEnd(sw[k]) + stillness_frames

\* two segments were returned, the second starting on the first frame it
\* can start on after the first
C21_Witness ==
    /\ phase = "done"
    /\ Len(returned) = 2
    /\ stillness_frames >= 1
    /\ SegStart(returned[2]) = SegEnd(returned[1]) + stillness_frames + 1

\* frame f (from 0) is frame 0, or it or the frame before it is missing
NoDisplacement(lms, f) == f = 0 \/ lms[f + 1] = None \/ lms[f] = None

\* C22 as stated: the returned energy is 0 at frame 0 and at every frame
\* that is missing or follows a missing frame, whatever the length of the
\* sequence.
C22_ZeroAtMissing ==
    phase # "energy" =>
        \A f \in 0..(Len(landmarks_sequence) - 1) :
            NoDisplacement(landmarks_sequence, f) => motion_energy[f + 1] = 0

\* C22 amended: the returned energy is 0 at those frames when the sequence
\* is no longer than the smoothing window; for a longer sequence the
\* returned value is the filter's, a weighted sum of the energies around
\* the frame, in which those frames enter as 0.
C22_ZeroAtMissingUnsmoothed ==
    phase # "energy" =>
        LET lms == landmarks_sequence
            n == Len(lms)
            raw == [k \in 1..n |-> IF NoDisplacement(lms, k - 1) THEN 0
                                   ELSE Abs(Y(lms[k]) - Y(lms[k - 1]))]
        IN  /\ Len(motion_energy) = n
            /\ n <= velocity_smoothing_window =>
                  \A f \in 0..(n - 1) :
                      /\ NoDisplacement(lms, f) => motion_energy[f + 1] = 0
                      /\ motion_energy[f + 1] = EnergyDenom * raw[f + 1]
            /\ n > velocity_smoothing_window =>
                  \A f \in 0..(n - 1) : motion_energy[f + 1] = SavgolAt(raw, f + 1)

\* a sequence exactly as long as the window, with a missing frame between
\* two moving stretches
C22_Witness ==
    /\ phase = "scan"
    /\ Len(landmarks_sequence) = velocity_smoothing_window
    /\ landmarks_sequence[3] = None
    /\ motion_energy[2] > 0
    /\ motion_energy[3] = 0
    /\ motion_energy[4] = 0
    /\ motion_energy[5] > 0

\* C23: on a non-empty segment of L frames, top - start is 0 when
\* floor(L/2) = 0 and otherwise the first index, among the first floor(L/2)
\* frames, of the least right-wrist y with a missing frame counted as 0; so
\* no detected frame with y > 0 is the top when the first half has a
\* missing frame.
C23_TopIsFirstMinimum ==
    phase = "positioned" /\ DOMAIN key_positions = PositionNames =>
        LET start == swing_range[1]
            segment == Slice(landmarks_sequence, start, swing_range[2])
            half == Len(segment) \div 2
            t == key_positions.top - start
            height(k) == IF segment[k + 1] = None THEN 0 ELSE Y(segment[k + 1])
        IN  /\ half = 0 => t = 0
            /\ half > 0 =>
                  /\ 0 <= t /\ t < half
                  /\ \A j \in 0..(half - 1) : height(t) <= height(j)
                  /\ \A j \in 0..(t - 1) : height(j) > height(t)
                  /\ (\E j \in 0..(half - 1) : segment[j + 1] = None) =>
                        segment[t + 1] = None \/ Y(segment[t + 1]) = 0

\* the top is a missing frame that comes after a detected frame with y > 0
C23_Witness ==
    /\ phase = "positioned"
    /\ DOMAIN key_positions = PositionNames
    /\ key_positions.top > swing_range[1]
    /\ landmarks_sequence[key_positions.top + 1] = None
    /\ landmarks_sequence[swing_range[1] + 1] # None

\* the frames calculate_weight_transfer visits
WeightFrames ==
    FrameRange(landmarks_sequence, KeyGet(key_positions, "address", 0),
               KeyGet(key_positions, "finish", Len(landmarks_sequence) - 1))

\* C24: every ratio of the distribution is 0.5 for a missing frame or a
\* stance narrower than 0.01 and otherwise (hip_center_x - left_ankle_x) /
\* stance width clamped to [0, 1]; max_weight_shift is the largest minus the
\* smallest ratio and lies in [0, 1]; weight_transfer_score is
\* min(100, 100 * shift / threshold), lies in [0, 100] and is 100 exactly
\* when shift >= threshold.
C24_WeightTransferFormula ==
    phase \in {"errors", "errors_done"} =>
        LET lms == landmarks_sequence
            start == KeyGet(key_positions, "address", 0)
            ratios == weight_metrics.weight_distribution
            shift == weight_metrics.max_weight_shift
            score == weight_metrics.weight_transfer_score
        IN  /\ Len(ratios) = Cardinality(WeightFrames)
            /\ \A f \in WeightFrames :
                  LET lm == lms[f + 1]
                      ratio == ratios[f - start + 1]
                  IN  IF lm = None THEN ratio = 500
                      ELSE LET width == Abs(lm.right_ankle_x - lm.left_ankle_x)
                               offset == lm.hip_center_x - lm.left_ankle_x
                           IN  IF width < 1 THEN ratio = 500
                               ELSE IF offset < 0 THEN ratio = 0
                               ELSE IF offset > width THEN ratio = 1000
                               ELSE ratio * width = 1000 * offset
            /\ WeightFrames # {} =>
                  /\ \E f \in 1..Len(ratios) : \E g \in 1..Len(ratios) :
                        /\ shift = ratios[f] - ratios[g]
                        /\ \A k \in 1..Len(ratios) :
                              ratios[g] <= ratios[k] /\ ratios[k] <= ratios[f]
            /\ WeightFrames = {} => shift = 0
            /\ 0 <= shift /\ shift <= 1000
            /\ score.den > 0
            /\ IF 100 * shift <= 100 * weight_shift_threshold
               THEN score.num * weight_shift_threshold = 100 * shift * score.den
               ELSE score.num = 100 * score.den
            /\ 0 <= score.num /\ score.num <= 100 * score.den
            /\ score.num = 100 * score.den <=> shift >= weight_shift_threshold

\* the shift is exactly the threshold, across a missing frame
C24_Witness ==
    /\ phase = "errors_done"
    /\ weight_metrics.weight_distribution = <<500, 500, 650>>
    /\ landmarks_sequence[2] = None
    /\ weight_metrics.max_weight_shift = weight_shift_threshold
    /\ weight_metrics.weight_transfer_score.num
          = 100 * weight_metrics.weight_transfer_score.den

\* C25: with the address frame missing the two series are empty and the
\* maxima and the score are 0; otherwise the maxima are the largest absolute
\* values of the series and rotation_sequence_score is
\* max(0, 100 - 30 * |shoulder / (hip + 1) - 2|) when the shoulder maximum
\* exceeds the hip maximum and exactly 50 when it does not; the score is
\* always within [0, 100].
C25_RotationSequenceScore ==
    phase \in {"weight", "errors", "errors_done"} =>
        LET lms == landmarks_sequence
            hip == rotation_metrics.max_hip_rotation
            shoulder == rotation_metrics.max_shoulder_rotation
            score == rotation_metrics.rotation_sequence_score
            hips == rotation_metrics.hip_rotation
            shoulders == rotation_metrics.shoulder_rotation
        IN  /\ score.den > 0
            /\ 0 <= score.num /\ score.num <= 100 * score.den
            /\ IF Missing(lms, KeyGet(key_positions, "address", 0))
               THEN /\ hips = <<>> /\ shoulders = <<>>
                    /\ hip = 0 /\ shoulder = 0
                    /\ score.num = 0
               ELSE /\ Len(hips) = Cardinality(WeightFrames)
                    /\ Len(shoulders) = Len(hips)
                    /\ \E k \in 1..Len(hips) : Abs(hips[k]) = hip
                    /\ \A k \in 1..Len(hips) : Abs(hips[k]) <= hip
                    /\ \E k \in 1..Len(shoulders) : Abs(shoulders[k]) = shoulder
                    /\ \A k \in 1..Len(shoulders) : Abs(shoulders[k]) <= shoulder
                    /\ IF shoulder > hip
                       THEN LET exact == 100 * (hip + 1)
                                           - 30 * Abs(shoulder - 2 * (hip + 1))
                            IN  score.num * (hip + 1)
                                   = score.den * (IF exact < 0 THEN 0 ELSE exact)
                       ELSE score.num = 50 * score.den

\* the shoulders turned 90 degrees and the hips 45 from a detected address
\* frame: the score is 100 - 30 * |90/46 - 2|, between 98 and 99
C25_Witness ==
    /\ phase = "errors_done"
    /\ ~Missing(landmarks_sequence, KeyGet(key_positions, "address", 0))
    /\ rotation_metrics.max_shoulder_rotation = 90
    /\ rotation_metrics.max_hip_rotation = 45
    /\ rotation_metrics.rotation_sequence_score.num
          > 98 * rotation_metrics.rotation_sequence_score.den
    /\ rotation_metrics.rotation_sequence_score.num
          < 99 * rotation_metrics.rotation_sequence_score.den

\* the order in which detect_common_errors tests and appends
ErrorOrder ==
    <<"early_extension", "over_the_top", "reverse_pivot", "flat_shoulder", "sway">>

\* C26: the returned list holds each label at most once and in the fixed
\* order, and each of these labels is there exactly on its own condition:
\* reverse_pivot iff max_weight_shift < threshold / 2, flat_shoulder iff
\* rotation_sequence_score < 50, sway iff weight_transfer_score < 60 (all
\* strict), early_extension iff the top and impact frames are there and the
\* hip-centre y at the top exceeds that at impact by more than 0.05.
C26_ErrorsInOrder ==
    phase = "errors_done" =>
        LET lms == landmarks_sequence
            top == KeyGet(key_positions, "top", 0)
            impact == KeyGet(key_positions, "impact", Len(lms) - 1)
            IsEmitted(label) == label \in Emitted
        IN  /\ errors = SelectSeq(ErrorOrder, IsEmitted)
            /\ "reverse_pivot" \in Emitted
                  <=> 2 * weight_metrics.max_weight_shift < 150
            /\ "flat_shoulder" \in Emitted
                  <=> rotation_metrics.rotation_sequence_score.num
                         < 50 * rotation_metrics.rotation_sequence_score.den
            /\ "sway" \in Emitted
                  <=> weight_metrics.weight_transfer_score.num
                         < 60 * weight_metrics.weight_transfer_score.den
            /\ "early_extension" \in Emitted
                  <=> /\ ~Missing(lms, top)
                      /\ ~Missing(lms, impact)
                      /\ lms[top + 1].hip_y - lms[impact + 1].hip_y > 5

\* the shift is exactly threshold / 2 and the rotation score exactly 50, so
\* neither reverse_pivot nor flat_shoulder is there, between three labels
\* that are
C26_Witness ==
    /\ phase = "errors_done"
    /\ 2 * weight_metrics.max_weight_shift = weight_shift_threshold
    /\ rotation_metrics.max_shoulder_rotation = 11
    /\ errors = <<"early_extension", "over_the_top", "sway">>

\* C27: for the key positions identify_swing_positions returns for a
\* segment, the tempo ratio of analyze_tempo is strictly below 5/3 and the
\* tempo score strictly below 73.34, so never 100.
C27_TempoRatioBelowFiveThirds ==
    phase = "tempo_done" =>
        /\ tempo.tempo_ratio.den > 0
        /\ 3 * tempo.tempo_ratio.num < 5 * tempo.tempo_ratio.den
        /\ 100 * tempo.tempo_score.num < 7334 * tempo.tempo_score.den
        /\ tempo.tempo_score.num # 100 * tempo.tempo_score.den

\* the shortest segment the configured detector emits (31 frames) with the
\* top as late as it can be: backswing 14 frames, downswing 10
C27_Witness ==
    /\ phase = "tempo_done"
    /\ Len(landmarks_sequence) = ConfigMinSwingDuration + 1
    /\ key_positions.top = 14
    /\ tempo.backswing_frames = 14
    /\ tempo.downswing_frames = 10

\* C28: the grade of the result is the grade of the overall_score reported
\* in the same result (the sum rounded to 2 decimals): A from 90.00, B from
\* 80.00, C from 70.00, D from 60.00, F below.
C28_GradeAgreesWithReported ==
    phase = "scored" =>
        LET reported == swing_score.overall_score
        IN  swing_score.grade =
                (IF reported >= 9000 THEN "A"
                 ELSE IF reported >= 8000 THEN "B"
                 ELSE IF reported >= 7000 THEN "C"
                 ELSE IF reported >= 6000 THEN "D"
                 ELSE "F")

\* C29: on weight metrics computed by calculate_weight_transfer, a shift
\* below threshold / 2 has a score below 50, so whenever reverse_pivot is
\* emitted sway is emitted too.
C29_ReversePivotImpliesSway ==
    /\ phase \in {"errors", "errors_done"} =>
          (2 * weight_metrics.max_weight_shift < weight_shift_threshold =>
              weight_metrics.weight_transfer_score.num
                  < 50 * weight_metrics.weight_transfer_score.den)
    /\ phase = "errors_done" =>
          ("reverse_pivot" \in Emitted => "sway" \in Emitted)

\* a small shift that is not 0: both labels are there
C29_Witness ==
    /\ phase = "errors_done"
    /\ weight_metrics.max_weight_shift > 0
    /\ 2 * weight_metrics.max_weight_shift < weight_shift_threshold
    /\ "reverse_pivot" \in Emitted
    /\ "sway" \in Emitted

\* C30: get_session with the id the k-th add_session call returned returns
\* the record that call appended.
C30_SessionIdsUnique ==
    phase = "tracker" /\ lookup # <<>> =>
        lookup.session = Some(tracker[1][lookup.call])

====
